---- MODULE Spec2Model ----
(***************************************************************************)
(* The structured-extraction pipelines of roadgpt-backend: the section-    *)
(* wise cascade (single call on Pro, single call on Flash, page-chunked    *)
(* calls with retry and early stop, aggregation), its segmenter, its       *)
(* candidate filter and its aggregators.                                   *)
(*                                                                         *)
(* Text is modelled at two grains.  The text of a backend answer is a      *)
(* sequence of tokens: a backquote, the word json, a blank, the JSON        *)
(* punctuation, the literals null and 5, JSON objects (named o0, o1, ...)  *)
(* and a garbage character x.  The text of a page or chunk is a sequence   *)
(* of lines, a line a sequence of words.  Field values of records (names,  *)
(* summaries) are sequences of one-character strings.                      *)
(***************************************************************************)
EXTENDS Integers, Sequences, FiniteSets, TLC

\* ------------------------------------------------------------------ bounds
\* Number of 3000-character blocks of the longest unmarked document.
MaxDocPages == 47
\* Words in a block of estimatedPageSize characters of running text.
WordsPerBlock == 500

\* ------------------------------------------------------- program constants
PagesPerChunk == 6
OverlapPages == 1
maxConsecutiveNoNew == 6
maxRetries == 2
estimatedPageSize == 3000
SummaryKeyLen == 50
HeadingMinLen == 4
HeadingMaxLen == 120
HeadingMaxWords == 12
EligibilityMax == 4
LegacyChunkSize == 3000

\* ------------------------------------------------------------ Go helpers
minInt(a, b) == IF a < b THEN a ELSE b

\* A Go slice: nil and empty are different values (a nil slice is
\* serialized as JSON null, an empty one as []).  spare holds the elements
\* of the backing array past the length, up to the last one that is not the
\* zero value of the element type: a decoder that lengthens the slice again
\* finds them there.
NilSlice == [isNil |-> TRUE, elems |-> <<>>, spare |-> <<>>]
SliceOf(s) == [isNil |-> FALSE, elems |-> s, spare |-> <<>>]
SliceLen(v) == Len(v.elems)

\* The backing array of a slice: whatever lies past it is zero.
Backing(v) == v.elems \o v.spare
OldAt(v, k, zero) == IF k <= Len(Backing(v)) THEN Backing(v)[k] ELSE zero

\* s without the zero values at its end
StripZero(s, zero) ==
    LET ks == {k \in 1..Len(s) : s[k] # zero}
    IN  IF ks = {} THEN <<>>
        ELSE SubSeq(s, 1, CHOOSE k \in ks : \A j \in ks : k >= j)

\* encoding/json, decodeState.array on a slice holding prev: element k was
\* decoded into the k-th element of the backing array (elems are the
\* results); the slice is cut to the number of elements read, and a JSON
\* array without elements sets a fresh empty slice.
DecodedSlice(prev, elems, zero) ==
    IF elems = <<>> THEN SliceOf(<<>>)
    ELSE [isNil |-> FALSE, elems |-> elems,
          spare |-> StripZero(SubSeq(Backing(prev), Len(elems) + 1,
                                     Len(Backing(prev))), zero)]

\* --------------------------------------------------- answer text (tokens)
IsSpace(t) == t = " "

MinOf(S) == CHOOSE k \in S : \A j \in S : k <= j
MaxOf(S) == CHOOSE k \in S : \A j \in S : k >= j

\* The positions where p occurs in s.
Occurrences(s, p) == {k \in 1..(Len(s) - Len(p) + 1) : SubSeq(s, k, k + Len(p) - 1) = p}

\* s from its first token that is not a blank on
TrimLeft(s) ==
    LET ks == {k \in 1..Len(s) : ~IsSpace(s[k])}
    IN  IF ks = {} THEN <<>> ELSE SubSeq(s, MinOf(ks), Len(s))

\* s up to its last token that is not a blank
TrimRight(s) ==
    LET ks == {k \in 1..Len(s) : ~IsSpace(s[k])}
    IN  IF ks = {} THEN <<>> ELSE SubSeq(s, 1, MaxOf(ks))

\* strings.TrimSpace
TrimSpace(s) == TrimRight(TrimLeft(s))

HasPrefix(s, p) == Len(s) >= Len(p) /\ SubSeq(s, 1, Len(p)) = p

\* strings.ReplaceAll(s, old, new): non-overlapping matches, left to right.
RECURSIVE ReplaceAll(_, _, _)
ReplaceAll(s, old, new) ==
    IF Occurrences(s, old) = {} THEN s
    ELSE LET k == MinOf(Occurrences(s, old))
         IN  SubSeq(s, 1, k - 1) \o new
                 \o ReplaceAll(SubSeq(s, k + Len(old), Len(s)), old, new)

\* The token "bq" is one backquote character.
Fence == <<"bq", "bq", "bq">>
FenceJson == <<"bq", "bq", "bq", "json">>

\* The bytes of a text: the tokens json, JSON and page are words of four
\* letters, every other token of a field text is one byte.
Spell(t) ==
    CASE t = "json" -> <<"j", "s", "o", "n">>
      [] t = "JSON" -> <<"J", "S", "O", "N">>
      [] t = "page" -> <<"p", "a", "g", "e">>
      [] OTHER -> <<t>>

RECURSIVE Bytes(_)
Bytes(s) == IF s = <<>> THEN <<>> ELSE Spell(Head(s)) \o Bytes(Tail(s))

\* A mutant: the fence markers are not removed.
cleanJSONResponseNoStrip(response) == TrimSpace(response)

\* A mutant: the blanks are trimmed first and the fences removed after.
cleanJSONResponseTrimFirst(response) ==
    ReplaceAll(ReplaceAll(TrimSpace(response), FenceJson, <<>>), Fence, <<>>)

cleanJSONResponse(response) ==
    TrimSpace(ReplaceAll(ReplaceAll(response, FenceJson, <<>>), Fence, <<>>))

\* ------------------------------------------------------- section records
ZeroSection ==
    [section_name |-> <<>>, section_summary |-> <<>>, key_considerations |-> NilSlice]

KC(text, critical) ==
    [consideration |-> text, is_critical |-> critical, page_numbers |-> NilSlice]

ZeroKC == KC(<<>>, FALSE)

\* The JSON objects an answer can hold.  o0 is {} (no key), o1 and o2 carry
\* all three keys; o2 names the section of o1 in another case, with blanks.
Objects == {"o0", "o1", "o2"}

\* Decoding a JSON object into a (possibly reused) slice element: the keys
\* present overwrite, the keys absent leave the element field as it was;
\* the considerations are decoded into the considerations old has, of
\* which the page numbers stay (o1 and o2 have no such key).
\* In sectionwise.go a KeyConsideration has the JSON keys text, critical
\* and page: there the keys of the considerations of o1 and o2 name no
\* field, and a consideration stays what it was.
LegacyZeroKC == [text |-> <<>>, critical |-> FALSE, page |-> <<>>]

\* kc.Consideration, kc.Text in sectionwise.go
KcText(kc) == IF "text" \in DOMAIN kc THEN kc.text ELSE kc.consideration

DecodeObjectOf(file, old, t) ==
    LET ZeroKCOf == IF file = "sectionwise.go" THEN LegacyZeroKC ELSE ZeroKC
        kc(k, text, critical) ==
            IF file = "sectionwise.go"
            THEN OldAt(old.key_considerations, k, ZeroKCOf)
            ELSE [OldAt(old.key_considerations, k, ZeroKCOf)
                     EXCEPT !.consideration = text, !.is_critical = critical]
    IN  CASE t = "o1" -> [section_name |-> <<"E", "l">>,
                          section_summary |-> <<"a">>,
                          key_considerations |->
                              DecodedSlice(old.key_considerations,
                                           <<kc(1, <<"k">>, TRUE)>>, ZeroKCOf)]
          [] t = "o2" -> [section_name |-> <<" ", "e", "L">>,
                          section_summary |-> <<"a", "b">>,
                          key_considerations |->
                              DecodedSlice(old.key_considerations,
                                           <<kc(1, <<"K">>, FALSE), kc(2, <<"m">>, FALSE)>>,
                                           ZeroKCOf)]
          [] OTHER -> old

DecodeObject(old, t) == DecodeObjectOf("part_000", old, t)

\* The section an object decodes to in a fresh element.
SectionOf(t) == DecodeObject(ZeroSection, t)

\* The JSON objects of the answers of the scope-of-work calls (w0 is {})
\* and of the tender-summary calls (t0 is {}).
SowObjects == {"w0", "w1", "w2"}
TenderObjects == {"t0", "t1", "t2"}
AllObjects == Objects \cup SowObjects \cup TenderObjects

\* ----------------------------------------------------------- JSON syntax
Scalars == {"null", "5"}

StripSpace(s) == SelectSeq(s, LAMBDA t : ~IsSpace(t))

NoParse == [ok |-> FALSE, rest |-> <<>>, el |-> "", els |-> <<>>]

\* Recursive descent over the tokens: one JSON value at the head of s.
\* el is the kind of the value (the token itself, or "arr" for an array)
\* and els the kinds of the elements of an array.
RECURSIVE ParseValue(_)
RECURSIVE ParseElems(_, _)
ParseValue(s) ==
    IF s = <<>> THEN NoParse
    ELSE IF Head(s) \in Scalars \cup AllObjects
         THEN [ok |-> TRUE, rest |-> Tail(s), el |-> Head(s), els |-> <<>>]
    ELSE IF Head(s) = "["
         THEN IF Len(s) >= 2 /\ s[2] = "]"
              THEN [ok |-> TRUE, rest |-> SubSeq(s, 3, Len(s)), el |-> "arr", els |-> <<>>]
              ELSE ParseElems(Tail(s), <<>>)
    ELSE NoParse

ParseElems(s, acc) ==
    LET v == ParseValue(s) IN
    IF ~v.ok THEN NoParse
    ELSE IF v.rest # <<>> /\ Head(v.rest) = ","
         THEN ParseElems(Tail(v.rest), Append(acc, v.el))
    ELSE IF v.rest # <<>> /\ Head(v.rest) = "]"
         THEN [ok |-> TRUE, rest |-> Tail(v.rest), el |-> "arr",
               els |-> Append(acc, v.el)]
    ELSE NoParse

\* The tokens of a text as the scanner of encoding/json reads them: digits
\* that follow one another are one number, blanks separate.
RECURSIVE MergeDigits(_)
MergeDigits(s) ==
    IF Len(s) < 2 THEN s
    ELSE IF s[1] = "5" /\ s[2] = "5" THEN MergeDigits(Tail(s))
    ELSE <<Head(s)>> \o MergeDigits(Tail(s))

JTokens(text) == StripSpace(MergeDigits(text))

\* json.Unmarshal([]byte(text), &v) for v of type []SectionAnalysis holding
\* prev.  A syntax error leaves v alone.  null sets v to nil.  A value of
\* another type at the top is a type error and leaves v alone.  An array is
\* decoded element by element into the backing array of v (the elements of
\* prev, and the stale ones past its length, are reused); an element of
\* another type is a type error that leaves its slot as it was and lets
\* the decoding go on; [] gives an empty, non-nil slice.
UnmarshalOf(file, text, prev) ==
    LET p == ParseValue(JTokens(text))
        valid == p.ok /\ p.rest = <<>>
        old(k) == OldAt(prev, k, ZeroSection)
        dec(k) == IF p.els[k] \in AllObjects
                  THEN DecodeObjectOf(file, old(k), p.els[k]) ELSE old(k)
    IN  IF ~valid THEN [err |-> TRUE, v |-> prev]
        ELSE IF p.el = "null" THEN [err |-> FALSE, v |-> NilSlice]
        ELSE IF p.el # "arr" THEN [err |-> TRUE, v |-> prev]
        ELSE [err |-> \E k \in 1..Len(p.els) : p.els[k] \notin AllObjects \cup {"null"},
              v |-> DecodedSlice(prev, [k \in 1..Len(p.els) |-> dec(k)], ZeroSection)]

Unmarshal(text, prev) == UnmarshalOf("part_000", text, prev)

\* json.Unmarshal into a []SectionAnalysis of sectionwise.go
LegacyUnmarshal(text, prev) == UnmarshalOf("sectionwise.go", text, prev)

\* ------------------------------------------------- page and chunk text
\* A text is a sequence of lines and a line a sequence of words separated
\* by single blanks.  In the section-wise file the line separator written
\* by makeChunksFromPages and split on by chunkLikelyHasSectionHeader is
\* the two characters backslash n ("\\n" in an interpreted Go string).
BulkWord == "lorem"
LongWord == "ABCDEFGHIJKLMNOPQRSTUVWXYZABCDEFGHIJKLMNOPQRSTUVWXYZ"

\* A block of running text cut by extractTextByPage counts its characters.
WordLen(w) == IF w = BulkWord THEN estimatedPageSize ELSE Len(w)

\* The words of the documents, with their upper- and lower-case images.
Vocabulary == {"abc", "ABCD", "AB", "scope", "\\bscope\\b", BulkWord, LongWord}

PageMarker(k) == "[PAGE:" \o ToString(k) \o "]"
MaxPageNo == MaxDocPages + 1

\* strings.ToUpper of a word
ToUpper(w) ==
    CASE w = "abc" -> "ABC"
      [] w = "scope" -> "SCOPE"
      [] w = "\\bscope\\b" -> "\\BSCOPE\\B"
      [] w = BulkWord -> "LOREM"
      [] OTHER -> w

\* strings.ToLower of a word
ToLower(w) ==
    CASE w = "ABCD" -> "abcd"
      [] w = "AB" -> "ab"
      [] w = LongWord -> "abcdefghijklmnopqrstuvwxyzabcdefghijklmnopqrstuvwxyz"
      [] w \in Vocabulary -> w
      [] OTHER -> LET ks == {k \in 1..MaxPageNo : w = PageMarker(k)}
                  IN  IF ks = {} THEN w
                      ELSE "[page:" \o ToString(CHOOSE k \in ks : TRUE) \o "]"

RECURSIVE SumLen(_)
SumLen(line) == IF line = <<>> THEN 0 ELSE WordLen(Head(line)) + SumLen(Tail(line))

\* len(line) of a trimmed line
LineLen(line) == IF line = <<>> THEN 0 ELSE SumLen(line) + Len(line) - 1

\* sectionHeaderKeywords: each regular expression is written in a raw string
\* with doubled backslashes, so it matches a literal backslash, the letter b,
\* the phrase, a literal backslash and the letter b.
sectionHeaderKeywords ==
    << <<"\\brfp\\b">>, <<"\\bsection\\b">>, <<"\\bscope\\b">>,
       <<"\\bscope", "of", "work\\b">>, <<"\\bproject", "overview\\b">>,
       <<"\\bmajor", "work\\b">>, <<"\\btechnical", "standard\\b">>,
       <<"\\bsection-wise\\b">>, <<"\\beligibility\\b">>,
       <<"\\bsection", "wise\\b">>, <<"\\brfp", "section\\b">> >>

\* regexp.MatchString(pattern, s) at the grain of words: the phrase occurs
\* as consecutive words of one line.
LineMatches(line, phrase) ==
    \E k \in 1..(Len(line) - Len(phrase) + 1) :
        SubSeq(line, k, k + Len(phrase) - 1) = phrase

IsHeading(line) ==
    /\ LineLen(line) >= HeadingMinLen
    /\ LineLen(line) <= HeadingMaxLen
    /\ line = [k \in 1..Len(line) |-> ToUpper(line[k])]
    /\ Len(line) < HeadingMaxWords

\* A mutant: the all-caps heuristic is never applied.
chunkLikelyHasSectionHeaderKeywordsOnly(chunkText) ==
    LET s == [l \in 1..Len(chunkText) |->
                 [k \in 1..Len(chunkText[l]) |-> ToLower(chunkText[l][k])]]
    IN  \E p \in 1..Len(sectionHeaderKeywords), l \in 1..Len(s) :
            LineMatches(s[l], sectionHeaderKeywords[p])

chunkLikelyHasSectionHeader(chunkText) ==
    LET s == [l \in 1..Len(chunkText) |->
                 [k \in 1..Len(chunkText[l]) |-> ToLower(chunkText[l][k])]]
    IN  \/ \E p \in 1..Len(sectionHeaderKeywords), l \in 1..Len(s) :
              LineMatches(s[l], sectionHeaderKeywords[p])
        \/ \E l \in 1..Len(chunkText) : IsHeading(chunkText[l])

\* A mutant: no fallback to all chunks when no chunk qualifies.
filterCandidateChunksNoFallback(chunks) ==
    SelectSeq(chunks, LAMBDA c : chunkLikelyHasSectionHeader(c.Text))

filterCandidateChunks(chunks) ==
    LET candidates == SelectSeq(chunks, LAMBDA c : chunkLikelyHasSectionHeader(c.Text))
    IN  IF Len(candidates) = 0 THEN chunks ELSE candidates

\* ------------------------------------------------------------- segmenter
RECURSIVE JoinPages(_, _, _)
\* The lines of pages idx+1 .. end (0-based idx as in the code), each page
\* after its marker line, an empty line between two pages.
JoinPages(pageTexts, idx, end) ==
    IF idx >= end THEN <<>>
    ELSE << <<PageMarker(idx + 1)>> >> \o pageTexts[idx + 1]
         \o (IF idx + 1 < end THEN << <<>> >> ELSE <<>>)
         \o JoinPages(pageTexts, idx + 1, end)

\* One iteration of the loop of makeChunksFromPages at index i (0-based).
ChunkAt(pageTexts, pagesPerChunk, i) ==
    LET start == i
        end == minInt(Len(pageTexts), i + pagesPerChunk)
    IN  [StartPage |-> start + 1,
         EndPage |-> end,
         Text |-> JoinPages(pageTexts, start, end),
         PageRange |-> ToString(start + 1) \o "-" \o ToString(end)]

\* A mutant: the next chunk starts one page further.
SegNextIndexSkip(end, overlapPages) == end - overlapPages + 1

\* i = end - overlapPages
SegNextIndex(end, overlapPages) == end - overlapPages

RECURSIVE makeChunksLoop(_, _, _, _, _)
makeChunksLoop(pageTexts, pagesPerChunk, overlapPages, i, chunks) ==
    IF ~(i < Len(pageTexts)) THEN chunks
    ELSE LET c == ChunkAt(pageTexts, pagesPerChunk, i)
         IN  IF c.EndPage = Len(pageTexts) THEN Append(chunks, c)
             ELSE makeChunksLoop(pageTexts, pagesPerChunk, overlapPages,
                                 SegNextIndex(c.EndPage, overlapPages),
                                 Append(chunks, c))

makeChunksFromPages(pageTexts, pagesPerChunk, overlapPages) ==
    IF Len(pageTexts) = 0 THEN <<>>
    ELSE makeChunksLoop(pageTexts, pagesPerChunk, overlapPages, 0, <<>>)

\* TenderSummaryExtractor.makeChunksFromPages writes every page as its
\* marker line, its text and two line ends: an empty line follows each
\* page, the last one too, and the text ends with a line end.
RECURSIVE TenderJoinPages(_, _, _)
TenderJoinPages(pages, idx, end) ==
    IF idx >= end THEN << <<>> >>
    ELSE << <<PageMarker(idx + 1)>> >> \o pages[idx + 1] \o << <<>> >>
         \o TenderJoinPages(pages, idx + 1, end)

TenderChunkAt(pages, pagesPerChunk, i) ==
    LET start == i
        end == minInt(Len(pages), i + pagesPerChunk)
    IN  [StartPage |-> start + 1,
         EndPage |-> end,
         Text |-> TenderJoinPages(pages, start, end)]

RECURSIVE TenderMakeChunksLoop(_, _, _, _, _)
TenderMakeChunksLoop(pages, pagesPerChunk, overlapPages, i, chunks) ==
    IF ~(i < Len(pages)) THEN chunks
    ELSE LET c == TenderChunkAt(pages, pagesPerChunk, i)
         IN  IF c.EndPage = Len(pages) THEN Append(chunks, c)
             ELSE TenderMakeChunksLoop(pages, pagesPerChunk, overlapPages,
                                       SegNextIndex(c.EndPage, overlapPages),
                                       Append(chunks, c))

TenderMakeChunksFromPages(pages, pagesPerChunk, overlapPages) ==
    IF Len(pages) = 0 THEN <<>>
    ELSE TenderMakeChunksLoop(pages, pagesPerChunk, overlapPages, 0, <<>>)

\* ------------------------------------------------------------- documents
\* A document is its length in characters and the texts that follow each
\* match of pageRegex (none in a document without such a match).
BulkPage == << <<BulkWord>> >>

\* extractTextByPage: the texts after the page markers, or, when there is
\* none, the document cut into blocks of estimatedPageSize characters.
extractTextByPage(doc) ==
    IF Len(doc.after) > 0 THEN doc.after
    ELSE [k \in 1..((doc.len + estimatedPageSize - 1) \div estimatedPageSize) |-> BulkPage]

\* ------------------------------------------------ programmatic aggregate
\* strings.ToLower of one byte
UpperLetters ==
    <<"A", "B", "C", "D", "E", "F", "G", "H", "I", "J", "K", "L", "M",
      "N", "O", "P", "Q", "R", "S", "T", "U", "V", "W", "X", "Y", "Z">>
LowerLetters ==
    <<"a", "b", "c", "d", "e", "f", "g", "h", "i", "j", "k", "l", "m",
      "n", "o", "p", "q", "r", "s", "t", "u", "v", "w", "x", "y", "z">>

LowerChar(c) ==
    LET ks == {k \in 1..Len(UpperLetters) : UpperLetters[k] = c}
    IN  IF ks = {} THEN c ELSE LowerLetters[CHOOSE k \in ks : TRUE]

\* regexp \s+ replaced by one blank
RECURSIVE CollapseSpace(_)
CollapseSpace(s) ==
    IF s = <<>> THEN <<>>
    ELSE IF IsSpace(Head(s))
         THEN <<" ">> \o CollapseSpace(TrimLeft(s))
         ELSE <<Head(s)>> \o CollapseSpace(Tail(s))

\* normalize of programmaticAggregate
\* normalize of programmaticAggregate, on the bytes of s
normalize(s) ==
    LET t == CollapseSpace(TrimSpace(Bytes(s))) IN [k \in 1..Len(t) |-> LowerChar(t[k])]

\* len(s) of a field text, in bytes
FieldLen(s) == Len(Bytes(s))

\* The key of a section: its normalized name, or, for a section without
\* one, the first SummaryKeyLen bytes of its summary, normalized.
SectionKey(section) ==
    LET key == normalize(section.section_name)
    IN  IF key = <<>>
        THEN normalize(SubSeq(Bytes(section.section_summary), 1,
                              minInt(SummaryKeyLen, FieldLen(section.section_summary))))
        ELSE key

RECURSIVE AppendNew(_, _)
\* the considerations of kcs whose normalized text is not yet in existing,
\* appended in order
AppendNew(existing, kcs) ==
    IF kcs = <<>> THEN existing
    ELSE IF \E k \in 1..Len(existing) :
                normalize(KcText(existing[k])) = normalize(KcText(Head(kcs)))
         THEN AppendNew(existing, Tail(kcs))
         ELSE AppendNew(Append(existing, Head(kcs)), Tail(kcs))

\* append(v, items...): the items take the places of the stale elements of
\* the backing array; no item leaves v as it is.
AppendAll(v, items) ==
    IF items = <<>> THEN v
    ELSE [isNil |-> FALSE, elems |-> v.elems \o items,
          spare |-> SubSeq(v.spare, Len(items) + 1, Len(v.spare))]

\* existing.KeyConsiderations after the considerations of kcs were appended
MergeKcs(existing, kcs) ==
    AppendAll(existing,
              SubSeq(AppendNew(existing.elems, kcs.elems), Len(existing.elems) + 1,
                     Len(AppendNew(existing.elems, kcs.elems))))

\* A mutant: an equally long summary met later replaces the one kept.
MergeSectionLast(st, section) ==
    LET key == SectionKey(section) IN
    IF key = <<>> THEN st
    ELSE IF \E k \in 1..Len(st.keys) : st.keys[k] = key
    THEN LET k == CHOOSE k \in 1..Len(st.keys) : st.keys[k] = key
             existing == st.merged[k]
         IN  [st EXCEPT !.merged[k] =
                [section_name |-> existing.section_name,
                 section_summary |->
                    IF FieldLen(section.section_summary)
                           >= FieldLen(existing.section_summary)
                    THEN section.section_summary ELSE existing.section_summary,
                 key_considerations |->
                    MergeKcs(existing.key_considerations, section.key_considerations)]]
    ELSE [keys |-> Append(st.keys, key), merged |-> Append(st.merged, section)]

\* One section folded into the map merged (keys holds its keys, first seen
\* first).
MergeSection(st, section) ==
    LET key == SectionKey(section) IN
    IF key = <<>> THEN st
    ELSE IF \E k \in 1..Len(st.keys) : st.keys[k] = key
    THEN LET k == CHOOSE k \in 1..Len(st.keys) : st.keys[k] = key
             existing == st.merged[k]
         IN  [st EXCEPT !.merged[k] =
                [section_name |-> existing.section_name,
                 section_summary |->
                    IF FieldLen(section.section_summary)
                           > FieldLen(existing.section_summary)
                    THEN section.section_summary ELSE existing.section_summary,
                 key_considerations |->
                    MergeKcs(existing.key_considerations, section.key_considerations)]]
    ELSE [keys |-> Append(st.keys, key), merged |-> Append(st.merged, section)]

RECURSIVE MergeAll(_, _)
MergeAll(st, sections) ==
    IF sections = <<>> THEN st
    ELSE MergeAll(MergeSection(st, Head(sections)), Tail(sections))

RECURSIVE Flatten(_)
Flatten(chunkResults) ==
    IF chunkResults = <<>> THEN <<>>
    ELSE Head(chunkResults) \o Flatten(Tail(chunkResults))

\* The map built by programmaticAggregate, as the sequence of its values in
\* first-seen order of their keys.
MergedSections(chunkResults) ==
    MergeAll([keys |-> <<>>, merged |-> <<>>], Flatten(chunkResults)).merged

\* A mutant: sections whose key is empty are kept, not dropped.
programmaticAggregateKeepAll(chunkResults) == {Flatten(chunkResults)}

\* programmaticAggregate: the values of the map in the order of a Go map
\* iteration, which the language leaves unspecified: every order is a
\* possible result.
programmaticAggregate(chunkResults) ==
    LET m == MergedSections(chunkResults)
    IN  {[k \in 1..Len(m) |-> m[p[k]]] : p \in Permutations(1..Len(m))}

\* ------------------------------------------- fences and text lengths
\* A regular expression "```(?:json)?\s*" replaced by nothing: each fence
\* with the word after it (one of words) and the blanks that follow.
RECURSIVE RemoveFences(_, _)
RemoveFences(s, words) ==
    IF Occurrences(s, Fence) = {} THEN s
    ELSE LET k == MinOf(Occurrences(s, Fence))
             r1 == SubSeq(s, k + Len(Fence), Len(s))
             r2 == IF r1 # <<>> /\ Head(r1) \in words THEN Tail(r1) ELSE r1
         IN  SubSeq(s, 1, k - 1) \o RemoveFences(TrimLeft(r2), words)

\* The regular expression "\s*```" replaced by nothing.
RECURSIVE RemoveSpaceFences(_)
RemoveSpaceFences(s) ==
    IF Occurrences(s, Fence) = {} THEN s
    ELSE LET k == MinOf(Occurrences(s, Fence))
             kept == TrimRight(SubSeq(s, 1, k - 1))
         IN  kept \o RemoveSpaceFences(SubSeq(s, k + Len(Fence), Len(s)))

\* The compact JSON of the objects:
\* o1 is {"section_name":"El","section_summary":"a",
\*        "key_considerations":[{"consideration":"k","is_critical":true}]}
\* o2 is {"section_name":" eL","section_summary":"ab",
\*        "key_considerations":[{"consideration":"K","is_critical":false},
\*                              {"consideration":"m","is_critical":false}]}
\* w1, w2, t1 and t2 are written out at DecodeSow and DecodeTender.
ObjectLen(t) ==
    CASE t = "o1" -> 107 [] t = "o2" -> 152
      [] t = "w1" -> 128 [] t = "w2" -> 135
      [] t = "t1" -> 172 [] t = "t2" -> 254
      [] OTHER -> Len("{}")

\* The number of bytes of an object up to its last closing bracket (0 when
\* it has none); no bracket and no opening brace follows it in the object.
LastBracketAt(t) ==
    CASE t = "o1" -> 106 [] t = "o2" -> 151
      [] t = "w1" -> 127 [] t = "w2" -> 134
      [] t = "t1" -> 170 [] t = "t2" -> 252
      [] OTHER -> 0

\* The token of an object cut after its last closing bracket.
Cut(t) == "cut:" \o t
CutObjects == {t \in {"o1", "o2", "w1", "w2", "t1", "t2"} : LastBracketAt(t) > 0}

KeyTokens ==
    {"k:section_name", "k:section_summary", "k:key_considerations", "k:consideration",
     "k:is_critical", "k:page_numbers", "k:project_overview", "k:project_name",
     "k:location", "k:total_length", "k:project_duration", "k:contract_value",
     "k:major_work_components", "k:s_no", "k:work_description",
     "k:quantity_specification", "k:unit", "k:technical_standards", "k:component",
     "k:standard_specification", "k:compliance_required", "k:eligibility_highlights",
     "k:important_dates", "k:pre_bid_queries", "k:bid_submission", "k:other_dates",
     "k:name", "k:date", "k:financial_requirements", "k:document_fees",
     "k:risk_analysis", "k:penalty_risk", "k:other_risks", "k:detail"}

IsKeyToken(t) == t \in KeyTokens

\* len(s) of an answer text, in bytes: a key token "k:name" stands for the
\* name in quotes and the colon.
TokenLen(t) ==
    CASE t \in AllObjects -> ObjectLen(t)
      [] \E o \in CutObjects : t = Cut(o) ->
             LastBracketAt(CHOOSE o \in CutObjects : t = Cut(o))
      [] IsKeyToken(t) -> Len(t) + 1
      [] t = "bq" -> Len("x")
      [] OTHER -> Len(t)

RECURSIVE TextLen(_)
TextLen(s) == IF s = <<>> THEN 0 ELSE TokenLen(Head(s)) + TextLen(Tail(s))

\* ----------------------------------------------------- scope of work data
ZeroOverview ==
    [project_name |-> <<>>, location |-> <<>>, total_length |-> <<>>,
     project_duration |-> <<>>, contract_value |-> <<>>]

ZeroSow ==
    [project_overview |-> ZeroOverview, major_work_components |-> NilSlice,
     technical_standards |-> NilSlice]

\* The placeholder ExtractSOW stores for a failed chunk.
SowPlaceholder ==
    [project_overview |-> ZeroOverview, major_work_components |-> SliceOf(<<>>),
     technical_standards |-> SliceOf(<<>>)]

MWC(sno, desc) ==
    [s_no |-> sno, work_description |-> desc, quantity_specification |-> <<>>,
     unit |-> <<>>]

ZeroTS == [component |-> <<>>, standard_specification |-> <<>>,
           compliance_required |-> <<>>]

\* w1 is {"project_overview":{"project_name":"A"},
\*        "major_work_components":[{"s_no":"1","work_description":"a"}],
\*        "technical_standards":[]}
\* w2 is {"project_overview":{"location":"b"},
\*        "major_work_components":[{"s_no":"1","work_description":"A"},
\*                                 {"s_no":"2","work_description":"a"}]}
\* The keys of an object overwrite, every other field of old stays; the
\* elements of a list are decoded into the elements old has there.
DecodeSow(old, t) ==
    LET mw(k, sno, desc) ==
            [OldAt(old.major_work_components, k, MWC(<<>>, <<>>))
                EXCEPT !.s_no = sno, !.work_description = desc]
    IN  CASE t = "w1" ->
               [project_overview |-> [old.project_overview EXCEPT !.project_name = <<"A">>],
                major_work_components |->
                    DecodedSlice(old.major_work_components, <<mw(1, <<"1">>, <<"a">>)>>,
                                 MWC(<<>>, <<>>)),
                technical_standards |-> SliceOf(<<>>)]
          [] t = "w2" ->
               [project_overview |-> [old.project_overview EXCEPT !.location = <<"b">>],
                major_work_components |->
                    DecodedSlice(old.major_work_components,
                                 <<mw(1, <<"1">>, <<"A">>), mw(2, <<"2">>, <<"a">>)>>,
                                 MWC(<<>>, <<>>)),
                technical_standards |-> old.technical_standards]
          [] OTHER -> old

\* json.Unmarshal([]byte(text), &v) for v a ScopeOfWorkData holding prev: a
\* syntax error leaves v alone, null is a no-op without error, an object
\* overwrites the fields whose keys it has, any other value is a type error.
\* In the tender objects t1 and t2 project_overview is a string, which the
\* struct field cannot take: a type error, and nothing else of them is a
\* field of v.
UnmarshalSow(text, prev) ==
    LET p == ParseValue(JTokens(text))
        valid == p.ok /\ p.rest = <<>>
    IN  IF ~valid THEN [err |-> TRUE, v |-> prev]
        ELSE IF p.el = "null" THEN [err |-> FALSE, v |-> prev]
        ELSE IF p.el \in AllObjects
             THEN [err |-> p.el \in {"t1", "t2"}, v |-> DecodeSow(prev, p.el)]
        ELSE [err |-> TRUE, v |-> prev]

\* SOWExtractor.cleanModelOutput
SowCleanModelOutput(raw) ==
    IF raw = <<>> THEN <<>>
    ELSE TrimSpace(ReplaceAll(RemoveFences(raw, {"json"}), Fence, <<>>))

\* SOWExtractor.extractJSONBlock: the one match of the greedy expression
\* runs from the first opening brace to the last closing brace.
SowExtractJSONBlock(text) ==
    LET ks == {k \in 1..Len(text) : text[k] \in AllObjects} IN
    IF ks = {} THEN <<>>
    ELSE SubSeq(text, CHOOSE k \in ks : \A j \in ks : k <= j,
                      CHOOSE k \in ks : \A j \in ks : k >= j)

\* SOWExtractor.safeParseJSON: nil with an error, or the parsed value.
SowSafeParseJSON(raw) ==
    IF raw = <<>> THEN [err |-> TRUE, parsed |-> ZeroSow]
    ELSE LET cleaned == SowCleanModelOutput(raw)
             u1 == UnmarshalSow(cleaned, ZeroSow)
             block == SowExtractJSONBlock(cleaned)
             u2 == UnmarshalSow(block, u1.v)
         IN  IF ~u1.err THEN [err |-> FALSE, parsed |-> u1.v]
             ELSE IF block # <<>> /\ ~u2.err THEN [err |-> FALSE, parsed |-> u2.v]
             ELSE [err |-> TRUE, parsed |-> ZeroSow]

\* SOWExtractor.callModelForPrompt on what the backend returns: an error of
\* the client or of the call, no candidate, or the text of the parts.
callModelForPrompt(r) ==
    IF r.kind # "text" THEN [err |-> TRUE, parsed |-> ZeroSow, raw |-> <<>>]
    ELSE LET q == SowSafeParseJSON(r.text)
         IN  [err |-> q.err, parsed |-> q.parsed, raw |-> r.text]

Lower(s) == [k \in 1..Len(Bytes(s)) |-> LowerChar(Bytes(s)[k])]

MwcKey(item) ==
    Lower(item.s_no \o <<"|">> \o item.work_description \o <<"|">>
          \o item.quantity_specification \o <<"|">> \o item.unit)

TsKey(item) ==
    Lower(item.component \o <<"|">> \o item.standard_specification \o <<"|">>
          \o item.compliance_required)

\* The items appended to acc in order, those whose key (keys[k] for
\* items[k]) was seen left out.
RECURSIVE DedupAppend(_, _, _, _)
DedupAppend(acc, seen, items, keys) ==
    IF items = <<>> THEN acc
    ELSE IF Head(keys) \in seen
         THEN DedupAppend(acc, seen, Tail(items), Tail(keys))
         ELSE DedupAppend(Append(acc, Head(items)), seen \cup {Head(keys)},
                          Tail(items), Tail(keys))

Dedup(items, keys) == DedupAppend(<<>>, {}, items, keys)

\* A mutant: the first value is taken, whether empty or not.
FirstValue(values, k) == IF k > Len(values) THEN <<>> ELSE values[k]

RECURSIVE FirstNonEmpty(_, _)
\* the first non-empty string of a sequence of strings, else the empty one
FirstNonEmpty(values, k) ==
    IF k > Len(values) THEN <<>>
    ELSE IF values[k] # <<>> THEN values[k]
    ELSE FirstNonEmpty(values, k + 1)

RECURSIVE ConcatLists(_, _)
ConcatLists(lists, k) ==
    IF k > Len(lists) THEN <<>> ELSE lists[k].elems \o ConcatLists(lists, k + 1)

\* SOWExtractor.programmaticMerge
programmaticMerge(chunkResults) ==
    LET po(f) == FirstNonEmpty([k \in 1..Len(chunkResults) |->
                     chunkResults[k].project_overview[f]], 1)
        mw == ConcatLists([k \in 1..Len(chunkResults) |->
                     chunkResults[k].major_work_components], 1)
        ts == ConcatLists([k \in 1..Len(chunkResults) |->
                     chunkResults[k].technical_standards], 1)
    IN  [project_overview |-> [f \in DOMAIN ZeroOverview |-> po(f)],
         major_work_components |-> SliceOf(Dedup(mw, [k \in 1..Len(mw) |-> MwcKey(mw[k])])),
         technical_standards |-> SliceOf(Dedup(ts, [k \in 1..Len(ts) |-> TsKey(ts[k])]))]

\* ---------------------------------------------------- tender summary data
\* A field text is a sequence of characters and of the words of Spell.
ZeroTender ==
    [project_overview |-> <<>>,
     eligibility_highlights |-> NilSlice,
     important_dates |-> [pre_bid_queries |-> <<>>, bid_submission |-> <<>>,
                          other_dates |-> NilSlice],
     financial_requirements |-> [contract_value |-> <<>>, document_fees |-> <<>>],
     risk_analysis |-> [penalty_risk |-> <<>>, other_risks |-> NilSlice]]

getEmptyTenderSummary ==
    [project_overview |-> <<>>,
     eligibility_highlights |-> SliceOf(<<>>),
     important_dates |-> [pre_bid_queries |-> <<>>, bid_submission |-> <<>>,
                          other_dates |-> SliceOf(<<>>)],
     financial_requirements |-> [contract_value |-> <<>>, document_fees |-> <<>>],
     risk_analysis |-> [penalty_risk |-> <<>>, other_risks |-> SliceOf(<<>>)]]

DateEntry(name, date) == [name |-> name, date |-> date]
RiskEntry(name, detail) == [name |-> name, detail |-> detail]

\* t1 is {"project_overview":"Ab","eligibility_highlights":["e"],
\*        "important_dates":{"bid_submission":"d",
\*                           "other_dates":[{"name":"n","date":"d"}]},
\*        "risk_analysis":{"other_risks":[]}}
\* t2 is {"project_overview":" abd page","eligibility_highlights":["E"," "],
\*        "important_dates":{"other_dates":[{"name":"N","date":"D"}]},
\*        "financial_requirements":{"contract_value":"5"},
\*        "risk_analysis":{"penalty_risk":"k",
\*                         "other_risks":[{"name":"n","detail":"d"}]}}
\* Every element of a list of t1 and t2 sets all the fields of its record,
\* so of the old lists only the backing arrays remain.
DecodeTender(old, t) ==
    CASE t = "t1" ->
           [old EXCEPT
              !.project_overview = <<"A", "b">>,
              !.eligibility_highlights = DecodedSlice(@, << <<"e">> >>, <<>>),
              !.important_dates.bid_submission = <<"d">>,
              !.important_dates.other_dates =
                  DecodedSlice(@, <<DateEntry(<<"n">>, <<"d">>)>>, DateEntry(<<>>, <<>>)),
              !.risk_analysis.other_risks = SliceOf(<<>>)]
      [] t = "t2" ->
           [old EXCEPT
              !.project_overview = <<" ", "a", "b", "d", " ", "page">>,
              !.eligibility_highlights = DecodedSlice(@, << <<"E">>, <<" ">> >>, <<>>),
              !.important_dates.other_dates =
                  DecodedSlice(@, <<DateEntry(<<"N">>, <<"D">>)>>, DateEntry(<<>>, <<>>)),
              !.financial_requirements.contract_value = <<"5">>,
              !.risk_analysis.penalty_risk = <<"k">>,
              !.risk_analysis.other_risks =
                  DecodedSlice(@, <<RiskEntry(<<"n">>, <<"d">>)>>, RiskEntry(<<>>, <<>>))]
      [] OTHER -> old

\* json.Unmarshal([]byte(text), &v) for v a TenderSummaryData holding prev.
\* In the scope-of-work objects w1 and w2 project_overview is an object,
\* which the string field cannot take: a type error, and nothing else of
\* them is a field of v.
UnmarshalTender(text, prev) ==
    LET p == ParseValue(JTokens(text))
        valid == p.ok /\ p.rest = <<>>
    IN  IF ~valid THEN [err |-> TRUE, v |-> prev]
        ELSE IF p.el = "null" THEN [err |-> FALSE, v |-> prev]
        ELSE IF p.el \in AllObjects
             THEN [err |-> p.el \in {"w1", "w2"}, v |-> DecodeTender(prev, p.el)]
        ELSE [err |-> TRUE, v |-> prev]

\* TenderSummaryExtractor.cleanModelOutput
TenderCleanModelOutput(raw) ==
    IF raw = <<>> THEN <<>>
    ELSE TrimSpace(RemoveSpaceFences(RemoveFences(raw, {"json", "JSON"})))

\* The successive matches of (\{[\s\S]*\}|\[[\s\S]*\]) from position p on:
\* at an opening brace (the first byte of an object) the match runs to the
\* last closing brace of the text (the end of its last object), at an
\* opening bracket to the last closing bracket of the text, which is a
\* bracket token or lies inside an object: the match then ends inside that
\* object, and what is left of the object opens no further match.
RECURSIVE BlockMatches(_, _)
BlockMatches(text, p) ==
    IF p > Len(text) THEN <<>>
    ELSE IF text[p] \in AllObjects
    THEN LET e == MaxOf({k \in p..Len(text) : text[k] \in AllObjects})
         IN  <<SubSeq(text, p, e)>> \o BlockMatches(text, e + 1)
    ELSE IF text[p] = "["
    THEN LET close == {k \in (p + 1)..Len(text) :
                          text[k] = "]" \/ text[k] \in CutObjects}
         IN  IF close = {} THEN BlockMatches(text, p + 1)
             ELSE LET e == MaxOf(close)
                  IN  IF text[e] = "]"
                      THEN <<SubSeq(text, p, e)>> \o BlockMatches(text, e + 1)
                      ELSE <<Append(SubSeq(text, p, e - 1), Cut(text[e]))>>
                               \o BlockMatches(text, e + 1)
    ELSE BlockMatches(text, p + 1)

RECURSIVE LongestMatch(_, _)
LongestMatch(matches, longest) ==
    IF matches = <<>> THEN longest
    ELSE LongestMatch(Tail(matches),
                      IF TextLen(Head(matches)) > TextLen(longest)
                      THEN Head(matches) ELSE longest)

\* TenderSummaryExtractor.extractJSONBlock
TenderExtractJSONBlock(text) ==
    IF text = <<>> THEN <<>> ELSE LongestMatch(BlockMatches(text, 1), <<>>)

\* The progressive trim: the prefixes of block, longest first, decoded into
\* the same value until one decodes without error.  A prefix that ends
\* inside a token is never valid JSON.
RECURSIVE TrimParse(_, _, _)
TrimParse(block, end, prev) ==
    IF end = 0 THEN [nil |-> TRUE, v |-> prev]
    ELSE LET u == UnmarshalTender(SubSeq(block, 1, end), prev)
         IN  IF ~u.err THEN [nil |-> FALSE, v |-> u.v]
             ELSE TrimParse(block, end - 1, u.v)

\* TenderSummaryExtractor.safeParseJSON: nil, or a pointer to the value.
TenderSafeParseJSON(raw) ==
    IF raw = <<>> THEN [nil |-> TRUE, v |-> ZeroTender]
    ELSE LET cleaned == TenderCleanModelOutput(raw)
             u1 == UnmarshalTender(cleaned, ZeroTender)
             block == TenderExtractJSONBlock(cleaned)
             u2 == UnmarshalTender(block, u1.v)
         IN  IF ~u1.err THEN [nil |-> FALSE, v |-> u1.v]
             ELSE IF block = <<>> THEN [nil |-> TRUE, v |-> ZeroTender]
             ELSE IF ~u2.err THEN [nil |-> FALSE, v |-> u2.v]
             ELSE TrimParse(block, Len(block), u2.v)

\* The decimal digits of a number, as %d writes them.
RECURSIVE DigitsOf(_)
DigitsOf(n) ==
    IF n < 10 THEN <<ToString(n)>> ELSE DigitsOf(n \div 10) \o <<ToString(n % 10)>>

\* fmt.Sprintf("(pages %d-%d)", startPage, endPage)
PageRef(startPage, endPage) ==
    <<"(", "page", "s", " ">> \o DigitsOf(startPage) \o <<"-">> \o DigitsOf(endPage)
        \o <<")">>

\* strings.Contains(strings.ToLower(s), "page")
MentionsPage(s) == Occurrences(Lower(s), <<"p", "a", "g", "e">>) # {}

\* fmt.Sprintf("%s %s", s, pageRange) when s is set and names no page
WithPageRef(s, startPage, endPage) ==
    IF s # <<>> /\ ~MentionsPage(s) THEN s \o <<" ">> \o PageRef(startPage, endPage) ELSE s

\* TenderSummaryExtractor.addProvenanceToSummary
addProvenanceToSummary(summary, startPage, endPage) ==
    LET od == summary.important_dates.other_dates IN
    [summary EXCEPT
       !.important_dates.pre_bid_queries = WithPageRef(@, startPage, endPage),
       !.important_dates.bid_submission = WithPageRef(@, startPage, endPage),
       !.important_dates.other_dates =
           [od EXCEPT !.elems = [k \in 1..Len(od.elems) |->
               [od.elems[k] EXCEPT !.date = WithPageRef(@, startPage, endPage)]]]]


RECURSIVE BestProj(_, _)
BestProj(objs, bestProj) ==
    IF objs = <<>> THEN bestProj
    ELSE LET po == TrimSpace(Head(objs).project_overview)
         IN  BestProj(Tail(objs),
                      IF po # <<>> /\ FieldLen(po) > FieldLen(bestProj)
                      THEN po ELSE bestProj)

\* A slice built by append from a nil slice: nil while nothing was appended.
Appended(items) == IF items = <<>> THEN NilSlice ELSE SliceOf(items)

\* v[:n] of a slice longer than n: the elements past n stay in the backing
\* array.
Resliced(v, n) ==
    IF SliceLen(v) > n
    THEN [v EXCEPT !.elems = SubSeq(v.elems, 1, n),
                   !.spare = SubSeq(v.elems, n + 1, Len(v.elems)) \o v.spare]
    ELSE v

DateKey(e) == Lower(e.name \o <<"|">> \o e.date)
RiskKey(e) == Lower(e.name \o <<"|">> \o e.detail)

\* TenderSummaryExtractor.dedupeOtherDates
dedupeOtherDates(dates) ==
    Appended(Dedup(dates, [k \in 1..Len(dates) |-> DateKey(dates[k])]))

\* TenderSummaryExtractor.dedupeOtherRisks
dedupeOtherRisks(risks) ==
    Appended(Dedup(risks, [k \in 1..Len(risks) |-> RiskKey(risks[k])]))

\* TenderSummaryExtractor.mergeTenderObjects
mergeTenderObjects(objs) ==
    LET n == Len(objs)
        elig == ConcatLists([k \in 1..n |-> objs[k].eligibility_highlights], 1)
        candElig == SelectSeq([k \in 1..Len(elig) |-> TrimSpace(elig[k])],
                              LAMBDA item : item # <<>>)
        dedup == Dedup(candElig, [k \in 1..Len(candElig) |-> Lower(candElig[k])])
        first(F(_)) == FirstNonEmpty([k \in 1..n |-> F(objs[k])], 1)
        pre(o) == o.important_dates.pre_bid_queries
        bid(o) == o.important_dates.bid_submission
        cv(o) == o.financial_requirements.contract_value
        df(o) == o.financial_requirements.document_fees
        pr(o) == o.risk_analysis.penalty_risk
    IN  [project_overview |-> BestProj(objs, <<>>),
         eligibility_highlights |->
             Resliced(Appended(dedup), EligibilityMax),
         important_dates |->
             [pre_bid_queries |-> first(pre),
              bid_submission |-> first(bid),
              other_dates |-> dedupeOtherDates(
                  ConcatLists([k \in 1..n |-> objs[k].important_dates.other_dates], 1))],
         financial_requirements |->
             [contract_value |-> first(cv), document_fees |-> first(df)],
         risk_analysis |->
             [penalty_risk |-> first(pr),
              other_risks |-> dedupeOtherRisks(
                  ConcatLists([k \in 1..n |-> objs[k].risk_analysis.other_risks], 1))]]

\* ------------------------------------------------- JSON text of a value
\* The text json.Marshal writes for a value, spelled out token by token:
\* brackets, braces and commas, "q" for a double quote, a token "k:name"
\* for a key with its quotes and colon, and the characters of every string
\* between two "q".  (The strings of the model hold nothing to escape.)
Str(s) == <<"q">> \o s \o <<"q">>

RECURSIVE Join(_, _)
Join(parts, sep) ==
    IF parts = <<>> THEN <<>>
    ELSE IF Len(parts) = 1 THEN parts[1]
    ELSE parts[1] \o sep \o Join(Tail(parts), sep)

Arr(parts) == <<"[">> \o Join(parts, <<",">>) \o <<"]">>
Obj(parts) == <<"{">> \o Join(parts, <<",">>) \o <<"}">>

\* A slice: null when nil, else the array of its elements (parts).
SliceText(v, parts) == IF v.isNil THEN <<"null">> ELSE Arr(parts)

\* page_numbers is omitempty: written when it has an element, each number
\* by its digits.
MarshalKC(kc) ==
    Obj(<< <<"k:consideration">> \o Str(kc.consideration),
           <<"k:is_critical", IF kc.is_critical THEN "true" ELSE "false">> >>
        \o (IF kc.page_numbers.elems = <<>> THEN <<>>
            ELSE << <<"k:page_numbers">> \o Arr(kc.page_numbers.elems) >>))

MarshalSection(section) ==
    LET kcs == section.key_considerations IN
    Obj(<< <<"k:section_name">> \o Str(section.section_name),
           <<"k:section_summary">> \o Str(section.section_summary),
           <<"k:key_considerations">> \o
               SliceText(kcs, [k \in 1..Len(kcs.elems) |-> MarshalKC(kcs.elems[k])]) >>)

\* json.Marshal of a []SectionAnalysis
MarshalSections(v) ==
    SliceText(v, [k \in 1..Len(v.elems) |-> MarshalSection(v.elems[k])])

MarshalSow(v) ==
    LET po == v.project_overview
        mw == v.major_work_components
        ts == v.technical_standards
    IN  Obj(<< <<"k:project_overview">> \o
                 Obj(<< <<"k:project_name">> \o Str(po.project_name),
                        <<"k:location">> \o Str(po.location),
                        <<"k:total_length">> \o Str(po.total_length),
                        <<"k:project_duration">> \o Str(po.project_duration),
                        <<"k:contract_value">> \o Str(po.contract_value) >>),
               <<"k:major_work_components">> \o
                 SliceText(mw, [k \in 1..Len(mw.elems) |->
                    Obj(<< <<"k:s_no">> \o Str(mw.elems[k].s_no),
                           <<"k:work_description">> \o Str(mw.elems[k].work_description),
                           <<"k:quantity_specification">> \o
                               Str(mw.elems[k].quantity_specification),
                           <<"k:unit">> \o Str(mw.elems[k].unit) >>)]),
               <<"k:technical_standards">> \o
                 SliceText(ts, [k \in 1..Len(ts.elems) |->
                    Obj(<< <<"k:component">> \o Str(ts.elems[k].component),
                           <<"k:standard_specification">> \o
                               Str(ts.elems[k].standard_specification),
                           <<"k:compliance_required">> \o
                               Str(ts.elems[k].compliance_required) >>)]) >>)

MarshalTender(v) ==
    LET el == v.eligibility_highlights
        od == v.important_dates.other_dates
        risks == v.risk_analysis.other_risks
    IN  Obj(<< <<"k:project_overview">> \o Str(v.project_overview),
               <<"k:eligibility_highlights">> \o
                 SliceText(el, [k \in 1..Len(el.elems) |-> Str(el.elems[k])]),
               <<"k:important_dates">> \o
                 Obj(<< <<"k:pre_bid_queries">> \o Str(v.important_dates.pre_bid_queries),
                        <<"k:bid_submission">> \o Str(v.important_dates.bid_submission),
                        <<"k:other_dates">> \o
                          SliceText(od, [k \in 1..Len(od.elems) |->
                             Obj(<< <<"k:name">> \o Str(od.elems[k].name),
                                    <<"k:date">> \o Str(od.elems[k].date) >>)]) >>),
               <<"k:financial_requirements">> \o
                 Obj(<< <<"k:contract_value">> \o
                            Str(v.financial_requirements.contract_value),
                        <<"k:document_fees">> \o
                            Str(v.financial_requirements.document_fees) >>),
               <<"k:risk_analysis">> \o
                 Obj(<< <<"k:penalty_risk">> \o Str(v.risk_analysis.penalty_risk),
                        <<"k:other_risks">> \o
                          SliceText(risks, [k \in 1..Len(risks.elems) |->
                             Obj(<< <<"k:name">> \o Str(risks.elems[k].name),
                                    <<"k:detail">> \o Str(risks.elems[k].detail) >>)]) >>) >>)

\* The scanner of json.Unmarshal on a spelled-out text: the value at the
\* head of toks as a node (t its kind, s the characters of a string, keys
\* and kids the members of an object or the elements of an array).
JNode(t, s, keys, kids) == [t |-> t, s |-> s, keys |-> keys, kids |-> kids]
JFail == [ok |-> FALSE, node |-> JNode("none", <<>>, <<>>, <<>>), rest |-> <<>>]
JOk(node, rest) == [ok |-> TRUE, node |-> node, rest |-> TrimLeft(rest)]

\* A number is a run of digits, a lone 0 or one that starts with another
\* digit (the texts hold no sign, fraction or exponent).
Digits == {"0", "1", "2", "3", "4", "5", "6", "7", "8", "9"}
DigitRun(toks) ==
    LET stops == {k \in 1..Len(toks) : toks[k] \notin Digits}
    IN  IF stops = {} THEN Len(toks) ELSE MinOf(stops) - 1

RECURSIVE JValue(_)
RECURSIVE JElems(_, _)
RECURSIVE JMembers(_, _, _)
JValue(text) ==
    LET toks == TrimLeft(text) IN
    IF toks = <<>> THEN JFail
    ELSE IF Head(toks) = "null" THEN JOk(JNode("null", <<>>, <<>>, <<>>), Tail(toks))
    ELSE IF Head(toks) \in {"true", "false"}
         THEN JOk(JNode("bool", <<Head(toks)>>, <<>>, <<>>), Tail(toks))
    ELSE IF Head(toks) \in Digits
         THEN LET n == IF Head(toks) = "0" THEN 1 ELSE DigitRun(toks)
              IN  JOk(JNode("number", SubSeq(toks, 1, n), <<>>, <<>>),
                      SubSeq(toks, n + 1, Len(toks)))
    ELSE IF Head(toks) = "q"
         THEN LET ends == {k \in 2..Len(toks) : toks[k] = "q"} IN
              IF ends = {} THEN JFail
              ELSE LET e == CHOOSE k \in ends : \A j \in ends : k <= j
                   IN  JOk(JNode("str", SubSeq(toks, 2, e - 1), <<>>, <<>>),
                           SubSeq(toks, e + 1, Len(toks)))
    ELSE IF Head(toks) = "["
         THEN IF TrimLeft(Tail(toks)) # <<>> /\ Head(TrimLeft(Tail(toks))) = "]"
              THEN JOk(JNode("arr", <<>>, <<>>, <<>>), Tail(TrimLeft(Tail(toks))))
              ELSE JElems(Tail(toks), <<>>)
    ELSE IF Head(toks) = "{"
         THEN IF TrimLeft(Tail(toks)) # <<>> /\ Head(TrimLeft(Tail(toks))) = "}"
              THEN JOk(JNode("obj", <<>>, <<>>, <<>>), Tail(TrimLeft(Tail(toks))))
              ELSE JMembers(Tail(toks), <<>>, <<>>)
    ELSE JFail

JElems(text, kids) ==
    LET v == JValue(text) IN
    IF ~v.ok \/ v.rest = <<>> THEN JFail
    ELSE IF Head(v.rest) = "," THEN JElems(Tail(v.rest), Append(kids, v.node))
    ELSE IF Head(v.rest) = "]"
         THEN JOk(JNode("arr", <<>>, <<>>, Append(kids, v.node)), Tail(v.rest))
    ELSE JFail

JMembers(text, keys, kids) ==
    LET toks == TrimLeft(text) IN
    IF toks = <<>> \/ ~IsKeyToken(Head(toks)) THEN JFail
    ELSE LET v == JValue(Tail(toks)) IN
         IF ~v.ok \/ v.rest = <<>> THEN JFail
         ELSE IF Head(v.rest) = ","
              THEN JMembers(Tail(v.rest), Append(keys, Head(toks)), Append(kids, v.node))
         ELSE IF Head(v.rest) = "}"
              THEN JOk(JNode("obj", <<>>, Append(keys, Head(toks)), Append(kids, v.node)),
                       Tail(v.rest))
         ELSE JFail

\* The whole text is one JSON value.
JParse(text) ==
    LET v == JValue(text) IN IF v.ok /\ v.rest = <<>> THEN v ELSE JFail

\* The Go types the texts are decoded into, as shapes: a string, a bool, an
\* array of one element shape, or an object of keyed shapes.
Shape(t, keys, kids) == [t |-> t, keys |-> keys, kids |-> kids]
StrShape == Shape("str", <<>>, <<>>)
ArrShape(elem) == Shape("arr", <<>>, <<elem>>)
ObjShape(keys, kids) == Shape("obj", keys, kids)

StrFields(keys) == ObjShape(keys, [k \in 1..Len(keys) |-> StrShape])

SectionsShape ==
    ArrShape(ObjShape(
        <<"k:section_name", "k:section_summary", "k:key_considerations">>,
        <<StrShape, StrShape,
          ArrShape(ObjShape(<<"k:consideration", "k:is_critical", "k:page_numbers">>,
                            <<StrShape, Shape("bool", <<>>, <<>>),
                              ArrShape(Shape("number", <<>>, <<>>))>>))>>))

SowShape ==
    ObjShape(<<"k:project_overview", "k:major_work_components", "k:technical_standards">>,
             <<StrFields(<<"k:project_name", "k:location", "k:total_length",
                           "k:project_duration", "k:contract_value">>),
               ArrShape(StrFields(<<"k:s_no", "k:work_description",
                                    "k:quantity_specification", "k:unit">>)),
               ArrShape(StrFields(<<"k:component", "k:standard_specification",
                                    "k:compliance_required">>))>>)

TenderShape ==
    ObjShape(<<"k:project_overview", "k:eligibility_highlights", "k:important_dates",
               "k:financial_requirements", "k:risk_analysis">>,
             <<StrShape, ArrShape(StrShape),
               ObjShape(<<"k:pre_bid_queries", "k:bid_submission", "k:other_dates">>,
                        <<StrShape, StrShape, ArrShape(StrFields(<<"k:name", "k:date">>))>>),
               StrFields(<<"k:contract_value", "k:document_fees">>),
               ObjShape(<<"k:penalty_risk", "k:other_risks">>,
                        <<StrShape, ArrShape(StrFields(<<"k:name", "k:detail">>))>>)>>)

\* The digits of the largest int (64 bits), and strconv.ParseInt of a
\* number without sign or leading zero: it fits when it has fewer digits,
\* or as many and none larger at the first place where the two differ.
MaxInt64 == <<"9", "2", "2", "3", "3", "7", "2", "0", "3", "6", "8", "5", "4", "7", "7",
              "5", "8", "0", "7">>
DigitVal(d) == CHOOSE n \in 0..9 : ToString(n) = d
FitsInt(s) ==
    \/ Len(s) < Len(MaxInt64)
    \/ /\ Len(s) = Len(MaxInt64)
       /\ LET diff == {k \in 1..Len(s) : s[k] # MaxInt64[k]}
          IN  diff = {} \/ DigitVal(s[MinOf(diff)]) < DigitVal(MaxInt64[MinOf(diff)])

\* A value of the text does not fit the Go type it is decoded into (null
\* fits every type, a key the type does not have is skipped, a number fits
\* an int when it is in its range).
RECURSIVE TypeError(_, _)
TypeError(node, shape) ==
    IF node.t = "null" THEN FALSE
    ELSE IF node.t # shape.t THEN TRUE
    ELSE IF node.t = "arr"
         THEN \E k \in 1..Len(node.kids) : TypeError(node.kids[k], shape.kids[1])
    ELSE IF node.t = "obj"
         THEN \E k \in 1..Len(node.kids) :
                 \E j \in 1..Len(shape.keys) :
                    shape.keys[j] = node.keys[k] /\ TypeError(node.kids[k], shape.kids[j])
    ELSE node.t = "number" /\ ~FitsInt(node.s)

\* The Go types of the decoded values, by name: the fields of a struct with
\* their types (a field is named as its JSON key), and the element type of
\* a slice.
Fields(type) ==
    CASE type = "KeyConsideration" ->
             [consideration |-> "string", is_critical |-> "bool", page_numbers |-> "[]int"]
      [] type = "SectionAnalysis" ->
             [section_name |-> "string", section_summary |-> "string",
              key_considerations |-> "[]KeyConsideration"]
      [] type = "ProjectOverview" ->
             [project_name |-> "string", location |-> "string", total_length |-> "string",
              project_duration |-> "string", contract_value |-> "string"]
      [] type = "MajorWorkComponent" ->
             [s_no |-> "string", work_description |-> "string",
              quantity_specification |-> "string", unit |-> "string"]
      [] type = "TechnicalStandard" ->
             [component |-> "string", standard_specification |-> "string",
              compliance_required |-> "string"]
      [] type = "ScopeOfWorkData" ->
             [project_overview |-> "ProjectOverview",
              major_work_components |-> "[]MajorWorkComponent",
              technical_standards |-> "[]TechnicalStandard"]
      [] type = "TenderSummaryData" ->
             [project_overview |-> "string", eligibility_highlights |-> "[]string",
              important_dates |-> "TenderSummaryImportantDates",
              financial_requirements |-> "TenderSummaryFinancialReqs",
              risk_analysis |-> "TenderSummaryRiskAnalysis"]
      [] type = "TenderSummaryImportantDates" ->
             [pre_bid_queries |-> "string", bid_submission |-> "string",
              other_dates |-> "[]DateEntry"]
      [] type = "DateEntry" -> [name |-> "string", date |-> "string"]
      [] type = "TenderSummaryFinancialReqs" ->
             [contract_value |-> "string", document_fees |-> "string"]
      [] type = "TenderSummaryRiskAnalysis" ->
             [penalty_risk |-> "string", other_risks |-> "[]RiskEntry"]
      [] type = "RiskEntry" -> [name |-> "string", detail |-> "string"]

ElemType(type) ==
    CASE type = "[]int" -> "int"
      [] type = "[]string" -> "string"
      [] type = "[]KeyConsideration" -> "KeyConsideration"
      [] type = "[]SectionAnalysis" -> "SectionAnalysis"
      [] type = "[]MajorWorkComponent" -> "MajorWorkComponent"
      [] type = "[]TechnicalStandard" -> "TechnicalStandard"
      [] type = "[]DateEntry" -> "DateEntry"
      [] type = "[]RiskEntry" -> "RiskEntry"
      [] OTHER -> "none"

\* The zero value of an int, by its digits, and of the element types.
ZeroInt == <<"0">>

ZeroOf(type) ==
    CASE type = "int" -> ZeroInt
      [] type = "string" -> <<>>
      [] type = "KeyConsideration" -> ZeroKC
      [] type = "SectionAnalysis" -> ZeroSection
      [] type = "MajorWorkComponent" -> MWC(<<>>, <<>>)
      [] type = "TechnicalStandard" -> ZeroTS
      [] type = "DateEntry" -> DateEntry(<<>>, <<>>)
      [] type = "RiskEntry" -> RiskEntry(<<>>, <<>>)

\* decodeState.literalStore into a string, a bool and an int: set by a
\* value of that kind, left alone by null, by a value of another kind and
\* by a number that does not fit the int (an UnmarshalTypeError).
SetStr(kid, old) == IF kid.t = "str" THEN kid.s ELSE old
SetBool(kid, old) == IF kid.t = "bool" THEN kid.s = <<"true">> ELSE old
SetInt(kid, old) == IF kid.t = "number" /\ FitsInt(kid.s) THEN kid.s ELSE old

\* decodeState.value: the node kid into a variable of the named type that
\* holds old.
RECURSIVE DecodeValue(_, _, _)

\* A member of an object into the field of its key; a key the struct does
\* not have is skipped.
Member(type, v, key, kid) ==
    LET fs == {f \in DOMAIN Fields(type) : key = "k:" \o f} IN
    IF fs = {} THEN v
    ELSE LET f == CHOOSE g \in fs : TRUE
         IN  [v EXCEPT ![f] = DecodeValue(Fields(type)[f], kid, @)]

\* decodeState.object on a struct holding old: the members in turn, each
\* into the field of its key; null and a value of another kind leave the
\* struct as it is.
DecodeStruct(node, old, type) ==
    LET f[k \in 0..Len(node.keys)] ==
            IF k = 0 THEN old ELSE Member(type, f[k - 1], node.keys[k], node.kids[k])
    IN  IF node.t = "obj" THEN f[Len(node.keys)] ELSE old

\* decodeState.array on a slice: the elements are decoded one by one into
\* the backing array, null sets nil, a value of another kind leaves it
\* alone.
SetSlice(kid, old, type) ==
    LET zero == ZeroOf(ElemType(type)) IN
    IF kid.t = "arr"
    THEN DecodedSlice(old,
                      [k \in 1..Len(kid.kids) |->
                          DecodeValue(ElemType(type), kid.kids[k], OldAt(old, k, zero))],
                      zero)
    ELSE IF kid.t = "null" THEN NilSlice
    ELSE old

DecodeValue(type, kid, old) ==
    CASE type = "string" -> SetStr(kid, old)
      [] type = "bool" -> SetBool(kid, old)
      [] type = "int" -> SetInt(kid, old)
      [] ElemType(type) # "none" -> SetSlice(kid, old, type)
      [] OTHER -> DecodeStruct(kid, old, type)

DecodeKC(node, old) == DecodeValue("KeyConsideration", node, old)

DecodeSectionNode(node, old) == DecodeValue("SectionAnalysis", node, old)

\* json.Unmarshal of a spelled-out text into a []SectionAnalysis holding
\* prev (see Unmarshal).
UnmarshalSections(text, prev) ==
    LET p == JParse(text) IN
    IF ~p.ok THEN [err |-> TRUE, v |-> prev]
    ELSE IF p.node.t \notin {"null", "arr"} THEN [err |-> TRUE, v |-> prev]
    ELSE [err |-> TypeError(p.node, SectionsShape),
          v |-> DecodeValue("[]SectionAnalysis", p.node, prev)]

DecodeSowNode(node, old) == DecodeValue("ScopeOfWorkData", node, old)

\* json.Unmarshal of a spelled-out text into a ScopeOfWorkData holding prev
\* (see UnmarshalSow).
UnmarshalSowText(text, prev) ==
    LET p == JParse(text) IN
    IF ~p.ok THEN [err |-> TRUE, v |-> prev]
    ELSE IF p.node.t = "null" THEN [err |-> FALSE, v |-> prev]
    ELSE IF p.node.t # "obj" THEN [err |-> TRUE, v |-> prev]
    ELSE [err |-> TypeError(p.node, SowShape), v |-> DecodeSowNode(p.node, prev)]

DecodeTenderNode(node, old) == DecodeValue("TenderSummaryData", node, old)

\* json.Unmarshal of a spelled-out text into a TenderSummaryData holding
\* prev (see UnmarshalTender).
UnmarshalTenderText(text, prev) ==
    LET p == JParse(text) IN
    IF ~p.ok THEN [err |-> TRUE, v |-> prev]
    ELSE IF p.node.t = "null" THEN [err |-> FALSE, v |-> prev]
    ELSE IF p.node.t # "obj" THEN [err |-> TRUE, v |-> prev]
    ELSE [err |-> TypeError(p.node, TenderShape), v |-> DecodeTenderNode(p.node, prev)]

\* The parsers on a spelled-out text.  The block of extractJSONBlock runs
\* from the first opening brace to the last closing brace.
SowTextBlock(text) ==
    LET opens == {k \in 1..Len(text) : text[k] = "{"}
        closes == {k \in 1..Len(text) : text[k] = "}"}
        first == CHOOSE k \in opens : \A j \in opens : k <= j
        last == CHOOSE k \in closes : \A j \in closes : k >= j
    IN  IF opens = {} \/ closes = {} THEN <<>>
        ELSE IF last < first THEN <<>>
        ELSE SubSeq(text, first, last)

\* SOWExtractor.safeParseJSON (see SowSafeParseJSON)
SowSafeParseText(raw) ==
    IF raw = <<>> THEN [err |-> TRUE, parsed |-> ZeroSow]
    ELSE LET cleaned == SowCleanModelOutput(raw)
             u1 == UnmarshalSowText(cleaned, ZeroSow)
             block == SowTextBlock(cleaned)
             u2 == UnmarshalSowText(block, u1.v)
         IN  IF ~u1.err THEN [err |-> FALSE, parsed |-> u1.v]
             ELSE IF block # <<>> /\ ~u2.err THEN [err |-> FALSE, parsed |-> u2.v]
             ELSE [err |-> TRUE, parsed |-> ZeroSow]

\* The successive matches of the block expression (see BlockMatches).
RECURSIVE TextBlockMatches(_, _)
TextBlockMatches(text, p) ==
    LET closeOf(k) == IF text[k] = "{" THEN {j \in (k + 1)..Len(text) : text[j] = "}"}
                      ELSE IF text[k] = "[" THEN {j \in (k + 1)..Len(text) : text[j] = "]"}
                      ELSE {}
        starts == {k \in p..Len(text) : closeOf(k) # {}}
    IN  IF starts = {} THEN <<>>
        ELSE <<SubSeq(text, MinOf(starts), MaxOf(closeOf(MinOf(starts))))>>
                 \o TextBlockMatches(text, MaxOf(closeOf(MinOf(starts))) + 1)

RECURSIVE TrimParseText(_, _, _)
TrimParseText(block, end, prev) ==
    IF end = 0 THEN [nil |-> TRUE, v |-> prev]
    ELSE LET u == UnmarshalTenderText(SubSeq(block, 1, end), prev)
         IN  IF ~u.err THEN [nil |-> FALSE, v |-> u.v]
             ELSE TrimParseText(block, end - 1, u.v)

\* TenderSummaryExtractor.safeParseJSON (see TenderSafeParseJSON)
TenderSafeParseText(raw) ==
    IF raw = <<>> THEN [nil |-> TRUE, v |-> ZeroTender]
    ELSE LET cleaned == TenderCleanModelOutput(raw)
             u1 == UnmarshalTenderText(cleaned, ZeroTender)
             block == LongestMatch(TextBlockMatches(cleaned, 1), <<>>)
             u2 == UnmarshalTenderText(block, u1.v)
         IN  IF ~u1.err THEN [nil |-> FALSE, v |-> u1.v]
             ELSE IF block = <<>> THEN [nil |-> TRUE, v |-> ZeroTender]
             ELSE IF ~u2.err THEN [nil |-> FALSE, v |-> u2.v]
             ELSE TrimParseText(block, Len(block), u2.v)

\* ------------------------------------------------------- backend answers
\* What one GenerateContent call returns: an error, a response without
\* candidates or content parts, or the text of the parts.
Resp(kind, text) == [kind |-> kind, text |-> text]
CallError == Resp("error", <<>>)
EmptyResponse == Resp("empty", <<>>)
Fenced(text) == FenceJson \o <<" ">> \o text \o <<" ">> \o Fence

SingleResponses ==
    {CallError, EmptyResponse,
     Resp("text", <<"x">>), Resp("text", <<"null">>), Resp("text", <<"[", "]">>),
     Resp("text", <<"o1">>), Resp("text", <<"[", "o1", ",", "5", "]">>),
     Resp("text", Fenced(<<"[", "o1", "]">>))}

ChunkResponses ==
    {CallError, EmptyResponse,
     Resp("text", <<"x">>), Resp("text", <<"[", "]">>),
     Resp("text", <<"[", "o1", ",", "5", "]">>), Resp("text", <<"[", "o0", "]">>),
     Resp("text", Fenced(<<"[", "o1", "]">>))}

SowResponses ==
    {CallError, EmptyResponse,
     Resp("text", <<"x">>), Resp("text", <<"null">>), Resp("text", <<"w0">>),
     Resp("text", <<"w1">>), Resp("text", Fenced(<<"w2">>)),
     Resp("text", <<"x", " ", "w1", "x">>)}

TenderResponses ==
    {CallError, EmptyResponse,
     Resp("text", <<"x">>), Resp("text", <<"null">>), Resp("text", <<"t0">>),
     Resp("text", <<"t1">>),
     Resp("text", Fence \o <<"JSON", " ", "t2", " ">> \o Fence),
     Resp("text", <<"[", "]", "x", "t1">>), Resp("text", <<"x", "t1">>),
     Resp("text", <<"t1", "x", "t0">>)}

AggregateResponses ==
    {CallError, EmptyResponse,
     Resp("text", <<"x">>), Resp("text", <<"null">>), Resp("text", <<"[", "]">>),
     Resp("text", <<"[", "o1", ",", "5", "]">>),
     Resp("text", Fenced(<<"[", "o1", ",", " ", "o2", "]">>))}

\* --------------------------------------------------------------- state
VARIABLES
    impl,               \* which extraction runs
    service,            \* GeminiService: which of client, proModel, flashModel are set
    doc,                \* the document handed to the extraction
    pc,                 \* where the extraction stands
    candidateChunks,    \* the chunks the loop ranges over
    i,                  \* index of the chunk of the loop (1-based)
    retry,              \* the retry counter of the chunk
    chunkSections,      \* the slice the answers of one chunk are decoded into
    consecutiveNoNew,
    processedCount,
    processedChunks,    \* the page ranges already processed
    chunkResults,
    result,             \* what the call returned
    hist,               \* history: the backend calls made so far
    seg,                \* a run of the loop of makeChunksFromPages
    fun,                \* an application of a pure function: argument and value
    ws,                 \* one WebSocket connection served by HandleWebSocket
    vs                  \* the VectorStore and the requests that call it

pipe == <<impl, service, doc, pc, candidateChunks, i, retry, chunkSections,
          consecutiveNoNew, processedCount, processedChunks, chunkResults,
          result, hist>>

vars == <<pipe, seg, fun, ws, vs>>

Configured == [client |-> TRUE, proModel |-> TRUE, flashModel |-> TRUE]
NotConfigured == [client |-> FALSE, proModel |-> FALSE, flashModel |-> FALSE]

Unmarked(blocks) ==
    [len |-> blocks * estimatedPageSize, after |-> <<>>, words |-> blocks * WordsPerBlock]

\* The documents: unmarked ones of 0, 1, 7 and MaxDocPages blocks of
\* estimatedPageSize characters, and one with two marked pages.
Documents ==
    {Unmarked(k) : k \in {0, 1, PagesPerChunk + 1, MaxDocPages}}
    \cup {[len |-> 20, after |-> << << <<"abc">> >>, << <<"scope">>, <<"abc", "abc">> >> >>,
            words |-> 6]}

\* The documents of the runs of the word-chunked extraction.
LegacyDocuments == {Unmarked(k) : k \in {0, 1, PagesPerChunk + 1}}

\* The page lists handed to ExtractSOW.
SowDocuments == {[pages |-> [k \in 1..n |-> BulkPage]] : n \in {0, 1, PagesPerChunk + 1}}

\* The PDF files handed to ExtractTenderSummary: one that cannot be opened,
\* one the parser fails on, and files of 0, 1 and 7 pages.
TenderDocuments ==
    {[fails |-> "open", pages |-> <<>>], [fails |-> "parse", pages |-> <<>>]}
    \cup {[fails |-> "none", pages |-> [k \in 1..n |-> BulkPage]]
             : n \in {0, 1, PagesPerChunk + 1}}

NoResult == [status |-> "none", mode |-> "", final |-> NilSlice, raw_single |-> <<>>,
             processed_chunks |-> 0]
ErrorResult(msg) == [NoResult EXCEPT !.status = "error", !.mode = msg]

Result(mode, final, raw, processed) ==
    [status |-> "ok", mode |-> mode, final |-> final, raw_single |-> raw,
     processed_chunks |-> processed]

\* History.  primary, secondary, aggregate: the calls of each stage; chunks:
\* the chunks (indices of candidateChunks) a call was made for; attempts:
\* the calls made for the chunk of the loop; lastOk: the last chunk that
\* contributed a result; by: what produced final; allFailed: every call so
\* far returned an error; answer: what the latest call returned; delay: the
\* milliseconds slept before the latest attempt of the chunk loop;
\* throttled: the chunks the loop slept its throttle delay after.
NoAnswer == Resp("none", <<>>)
NoHist == [primary |-> 0, secondary |-> 0, aggregate |-> 0, chunks |-> {},
           attempts |-> 0, lastOk |-> 0, by |-> "none", allFailed |-> TRUE,
           answer |-> NoAnswer, delay |-> 0, throttled |-> {}]

\* The throttle delay after chunk k.
Slept(h, k) == [h EXCEPT !.throttled = @ \cup {k}]

Called(h, stage, r) ==
    [h EXCEPT ![stage] = @ + 1, !.answer = r,
              !.allFailed = @ /\ r.kind = "error"]

SegIdle == [pc |-> "idle", n |-> 0, pagesPerChunk |-> 0, overlapPages |-> 0,
            i |-> 0, chunks |-> <<>>]
FunIdle == [name |-> "none", arg |-> <<>>, out |-> <<>>, done |-> FALSE]
WsIdle == [loop |-> "off", peer |-> "up", recv |-> <<>>, tasks |-> <<>>,
           writers |-> {}, raced |-> {}, sent |-> <<>>, crashed |-> FALSE]

\* A nil *Document, a request that calls nothing, and the store with no
\* request.
NoDoc == [id |-> "", content |-> <<>>, metadata |-> "", chunks |-> <<>>]
NoCall == [op |-> "none", pc |-> "idle", id |-> "", content |-> <<>>, metadata |-> "",
           query |-> <<>>, topK |-> 0, got |-> [doc |-> NoDoc, exists |-> FALSE],
           ret |-> <<>>, done |-> FALSE]
VsIdle == [documents |-> [id \in {} |-> NoDoc], pending |-> NoDoc, writer |-> 0, readers |-> {},
           procs |-> <<>>, calls |-> 0, live |-> {}, issued |-> {}, latest |-> <<>>]

PipeInit(m) ==
    /\ impl = m
    /\ pc = IF m = "none" THEN "off" ELSE "entry"
    /\ candidateChunks = <<>>
    /\ i = 1
    /\ retry = 0
    /\ chunkSections = NilSlice
    /\ consecutiveNoNew = 0
    /\ processedCount = 0
    /\ processedChunks = {}
    /\ chunkResults = <<>>
    /\ result = NoResult
    /\ hist = NoHist

Init ==
    /\ seg = SegIdle
    /\ ws = WsIdle
    /\ vs = VsIdle
    /\ fun = FunIdle
    /\ \/ /\ PipeInit("chunked")
          /\ service \in {Configured, NotConfigured}
          /\ doc \in Documents
       \/ /\ PipeInit("sectionwise")
          /\ service \in {Configured, NotConfigured}
          /\ doc \in LegacyDocuments
       \/ /\ PipeInit("sow")
          /\ service = Configured
          /\ doc \in SowDocuments
       \/ /\ PipeInit("tender")
          /\ service \in {Configured, NotConfigured}
          /\ doc \in TenderDocuments

\* -------------------------------------- ExtractSectionwiseAnalysis (chunked)
\* A mutant: the service counts as initialized whatever it holds.
NotInitializedNever(g) == FALSE

\* g.client == nil || g.proModel == nil || g.flashModel == nil
NotInitialized(g) == ~g.client \/ ~g.proModel \/ ~g.flashModel

\* A mutant: a single call succeeds on any answer that decodes, [] included.
SingleCallAnyList(r) ==
    LET text == cleanJSONResponse(r.text)
        u == Unmarshal(text, NilSlice)
    IN  [ok |-> r.kind = "text" /\ ~u.err, sections |-> u.v, raw |-> text]

\* The outcome of a single-call stage: the text of the parts is cleaned and
\* decoded into a fresh slice; the stage succeeds when the decoding reports
\* no error and the slice is not empty.
SingleCall(r) ==
    LET text == cleanJSONResponse(r.text)
        u == Unmarshal(text, NilSlice)
    IN  [ok |-> r.kind = "text" /\ ~u.err /\ SliceLen(u.v) > 0, sections |-> u.v,
         raw |-> text]

\* Entry: the configuration check.
Entry ==
    /\ impl = "chunked"
    /\ pc = "entry"
    /\ IF NotInitialized(service)
       THEN /\ result' = ErrorResult("gemini client not initialized")
            /\ pc' = "done"
       ELSE /\ pc' = "primary"
            /\ UNCHANGED result
    /\ UNCHANGED <<impl, service, doc, candidateChunks, i, retry, chunkSections,
                   consecutiveNoNew, processedCount, processedChunks, chunkResults,
                   hist, seg, fun, ws, vs>>

\* 1. The single call on the Pro model.
PrimarySingle ==
    /\ impl = "chunked"
    /\ pc = "primary"
    /\ \E r \in SingleResponses :
         LET s == SingleCall(r) IN
         /\ hist' = Called(hist, "primary", r)
         /\ IF s.ok
            THEN /\ result' = Result("single_primary", s.sections, s.raw, 0)
                 /\ pc' = "done"
            ELSE /\ pc' = "secondary"
                 /\ UNCHANGED result
    /\ UNCHANGED <<impl, service, doc, candidateChunks, i, retry, chunkSections,
                   consecutiveNoNew, processedCount, processedChunks, chunkResults,
                   seg, fun, ws, vs>>

\* 2. The single call on the Flash model; when it fails too, the pages are
\* extracted, the chunks built and prefiltered and the loop variables set.
SecondarySingle ==
    /\ impl = "chunked"
    /\ pc = "secondary"
    /\ \E r \in SingleResponses :
         LET s == SingleCall(r) IN
         /\ hist' = Called(hist, "secondary", r)
         /\ IF s.ok
            THEN /\ result' = Result("single_secondary", s.sections, s.raw, 0)
                 /\ pc' = "done"
                 /\ UNCHANGED candidateChunks
            ELSE /\ pc' = "chunk"
                 /\ candidateChunks' =
                       filterCandidateChunks(
                           makeChunksFromPages(extractTextByPage(doc),
                                               PagesPerChunk, OverlapPages))
                 /\ UNCHANGED result
    /\ UNCHANGED <<impl, service, doc, i, retry, chunkSections, consecutiveNoNew,
                   processedCount, processedChunks, chunkResults, seg, fun, ws, vs>>

\* The head of the chunk loop: the next chunk of the list, skipped when its
\* page range was processed already; the list exhausted ends the loop.
NextChunk ==
    /\ impl = "chunked"
    /\ pc = "chunk"
    /\ IF i > Len(candidateChunks)
       THEN /\ pc' = "aggregate"
            /\ UNCHANGED <<i, retry, chunkSections, processedCount, processedChunks, hist>>
       ELSE IF candidateChunks[i].PageRange \in processedChunks
       THEN /\ i' = i + 1
            /\ UNCHANGED <<pc, retry, chunkSections, processedCount, processedChunks, hist>>
       ELSE /\ processedCount' = processedCount + 1
            /\ processedChunks' = processedChunks \cup {candidateChunks[i].PageRange}
            /\ chunkSections' = NilSlice
            /\ retry' = 0
            /\ hist' = [hist EXCEPT !.attempts = 0, !.answer = NoAnswer]
            /\ pc' = "attempt"
            /\ UNCHANGED i
    /\ UNCHANGED <<impl, service, doc, candidateChunks, consecutiveNoNew, chunkResults,
                   result, seg, fun, ws, vs>>

\* A mutant: the delay grows with the retry number, not its square.
backoffTimeLinear(r) == IF r > 0 THEN r * 500 ELSE 0

\* The delay before attempt retry of a chunk, in milliseconds: none before
\* the first, time.Duration(retry*retry) * 500 * time.Millisecond after.
backoffTime(r) == IF r > 0 THEN r * r * 500 ELSE 0

\* The end of an iteration of the chunk loop: the early stop breaks before
\* the throttle delay, which is slept unless the chunk is the last.
Throttle(h, noNew) ==
    IF noNew >= maxConsecutiveNoNew \/ ~(i < Len(candidateChunks)) THEN h
    ELSE Slept(h, i)

\* A mutant: the early stop needs one more failed chunk.
AfterChunkLate(noNew) ==
    IF noNew > maxConsecutiveNoNew
    THEN pc' = "aggregate" /\ UNCHANGED i
    ELSE pc' = "chunk" /\ i' = i + 1

\* A mutant: no early stop.
AfterChunkNoStop(noNew) ==
    IF noNew < 0
    THEN pc' = "aggregate" /\ UNCHANGED i
    ELSE pc' = "chunk" /\ i' = i + 1

\* A mutant: the first failed chunk ends the loop.
AfterChunkStopOnFailure(noNew) ==
    IF noNew >= 1
    THEN pc' = "aggregate" /\ UNCHANGED i
    ELSE pc' = "chunk" /\ i' = i + 1

\* What follows the retry loop of a chunk: the early stop, else the next chunk.
AfterChunk(noNew) ==
    IF noNew >= maxConsecutiveNoNew
    THEN pc' = "aggregate" /\ UNCHANGED i
    ELSE pc' = "chunk" /\ i' = i + 1

\* A mutant: a chunk gets one attempt more.
ChunkAttemptOneMore ==
    /\ impl = "chunked"
    /\ pc = "attempt"
    /\ \E r \in ChunkResponses :
         LET u == Unmarshal(cleanJSONResponse(r.text), chunkSections)
             ok == r.kind = "text" /\ ~u.err /\ SliceLen(u.v) > 0
             h == [hist EXCEPT !.chunks = @ \cup {i}, !.attempts = @ + 1, !.answer = r,
                               !.allFailed = @ /\ r.kind = "error",
                               !.delay = backoffTime(retry)]
         IN
         /\ chunkSections' = IF r.kind = "text" THEN u.v ELSE chunkSections
         /\ IF ok
            THEN /\ chunkResults' = Append(chunkResults, u.v.elems)
                 /\ consecutiveNoNew' = 0
                 /\ hist' = Throttle([h EXCEPT !.lastOk = i], 0)
                 /\ AfterChunk(0)
                 /\ UNCHANGED retry
            ELSE IF retry = maxRetries + 1
            THEN /\ consecutiveNoNew' = consecutiveNoNew + 1
                 /\ hist' = Throttle(h, consecutiveNoNew + 1)
                 /\ AfterChunk(consecutiveNoNew + 1)
                 /\ UNCHANGED <<retry, chunkResults>>
            ELSE /\ retry' = retry + 1
                 /\ hist' = h
                 /\ UNCHANGED <<pc, i, consecutiveNoNew, chunkResults>>
    /\ UNCHANGED <<impl, service, doc, candidateChunks, processedCount, processedChunks,
                   result, seg, fun, ws, vs>>

\* A mutant: every failed attempt counts.
ChunkAttemptCountEach ==
    /\ impl = "chunked"
    /\ pc = "attempt"
    /\ \E r \in ChunkResponses :
         LET u == Unmarshal(cleanJSONResponse(r.text), chunkSections)
             ok == r.kind = "text" /\ ~u.err /\ SliceLen(u.v) > 0
             h == [hist EXCEPT !.chunks = @ \cup {i}, !.attempts = @ + 1, !.answer = r,
                               !.allFailed = @ /\ r.kind = "error",
                               !.delay = backoffTime(retry)]
         IN
         /\ chunkSections' = IF r.kind = "text" THEN u.v ELSE chunkSections
         /\ IF ok
            THEN /\ chunkResults' = Append(chunkResults, u.v.elems)
                 /\ consecutiveNoNew' = 0
                 /\ hist' = Throttle([h EXCEPT !.lastOk = i], 0)
                 /\ AfterChunk(0)
                 /\ UNCHANGED retry
            ELSE IF retry = maxRetries
            THEN /\ consecutiveNoNew' = consecutiveNoNew + 1
                 /\ hist' = Throttle(h, consecutiveNoNew + 1)
                 /\ AfterChunk(consecutiveNoNew + 1)
                 /\ UNCHANGED <<retry, chunkResults>>
            ELSE /\ retry' = retry + 1
                 /\ hist' = h
                 /\ consecutiveNoNew' = consecutiveNoNew + 1
                 /\ UNCHANGED <<pc, i, chunkResults>>
    /\ UNCHANGED <<impl, service, doc, candidateChunks, processedCount, processedChunks,
                   result, seg, fun, ws, vs>>

\* One attempt on the chunk: a call on the Flash model, then the decoding of
\* its answer.  A failed attempt is retried until retry reaches maxRetries.
ChunkAttempt ==
    /\ impl = "chunked"
    /\ pc = "attempt"
    /\ \E r \in ChunkResponses :
         LET u == Unmarshal(cleanJSONResponse(r.text), chunkSections)
             ok == r.kind = "text" /\ ~u.err /\ SliceLen(u.v) > 0
             h == [hist EXCEPT !.chunks = @ \cup {i}, !.attempts = @ + 1, !.answer = r,
                               !.allFailed = @ /\ r.kind = "error",
                               !.delay = backoffTime(retry)]
         IN
         /\ chunkSections' = IF r.kind = "text" THEN u.v ELSE chunkSections
         /\ IF ok
            THEN /\ chunkResults' = Append(chunkResults, u.v.elems)
                 /\ consecutiveNoNew' = 0
                 /\ hist' = Throttle([h EXCEPT !.lastOk = i], 0)
                 /\ AfterChunk(0)
                 /\ UNCHANGED retry
            ELSE IF retry = maxRetries
            THEN /\ consecutiveNoNew' = consecutiveNoNew + 1
                 /\ hist' = Throttle(h, consecutiveNoNew + 1)
                 /\ AfterChunk(consecutiveNoNew + 1)
                 /\ UNCHANGED <<retry, chunkResults>>
            ELSE /\ retry' = retry + 1
                 /\ hist' = h
                 /\ UNCHANGED <<pc, i, consecutiveNoNew, chunkResults>>
    /\ UNCHANGED <<impl, service, doc, candidateChunks, processedCount, processedChunks,
                   result, seg, fun, ws, vs>>

\* A mutant: the aggregation is tried without looking at the chunk results.
AggregateNoCheck ==
    /\ impl = "chunked"
    /\ pc = "aggregate"
    /\ pc' = "model"
    /\ UNCHANGED <<impl, service, doc, candidateChunks, i, retry, chunkSections,
                   consecutiveNoNew, processedCount, processedChunks, chunkResults,
                   result, hist, seg, fun, ws, vs>>

\* After the loop: no chunk result gives chunk_failed.
Aggregate ==
    /\ impl = "chunked"
    /\ pc = "aggregate"
    /\ IF Len(chunkResults) = 0
       THEN /\ result' = Result("chunk_failed", SliceOf(<<>>), <<>>, processedCount)
            /\ pc' = "done"
       ELSE /\ pc' = "model"
            /\ UNCHANGED result
    /\ UNCHANGED <<impl, service, doc, candidateChunks, i, retry, chunkSections,
                   consecutiveNoNew, processedCount, processedChunks, chunkResults,
                   hist, seg, fun, ws, vs>>

\* A mutant: whatever text the call returns is taken as the result.
aggregateChunksWithModelAnyText(r) ==
    LET u == Unmarshal(cleanJSONResponse(r.text), NilSlice)
    IN  [nil |-> r.kind # "text", aggregated |-> u.v]

\* aggregateChunksWithModel: one call on the Pro model; nil on a call error,
\* an empty response or a decoding error, else a pointer to the decoded slice.
aggregateChunksWithModel(r) ==
    LET u == Unmarshal(cleanJSONResponse(r.text), NilSlice)
    IN  [nil |-> r.kind # "text" \/ u.err, aggregated |-> u.v]

\* Model aggregation, and programmatic aggregation when it returns nil.
ModelAggregate ==
    /\ impl = "chunked"
    /\ pc = "model"
    /\ \E r \in AggregateResponses :
         LET a == aggregateChunksWithModel(r) IN
         IF ~a.nil
         THEN /\ result' = Result("chunk_optimized", a.aggregated, <<>>, 0)
              /\ hist' = [Called(hist, "aggregate", r) EXCEPT !.by = "model"]
         ELSE \E final \in programmaticAggregate(chunkResults) :
              /\ result' = Result("chunk_optimized", SliceOf(final), <<>>, 0)
              /\ hist' = [Called(hist, "aggregate", r) EXCEPT !.by = "programmatic"]
    /\ pc' = "done"
    /\ UNCHANGED <<impl, service, doc, candidateChunks, i, retry, chunkSections,
                   consecutiveNoNew, processedCount, processedChunks, chunkResults,
                   seg, fun, ws, vs>>

\* ----------------------- ExtractSectionwiseAnalysis of sectionwise.go
\* Variables only the page-chunked extraction uses.
loopVars == <<retry, chunkSections, consecutiveNoNew, processedCount, processedChunks>>
fixed == <<impl, service, doc, seg, fun, ws, vs>>

\* createDocumentChunks: the words of the text in runs of chunkSize words,
\* each chunk given by the positions of its first and last word.
RECURSIVE createDocumentChunksFrom(_, _, _)
createDocumentChunksFrom(words, chunkSize, at) ==
    IF ~(at < words) THEN <<>>
    ELSE <<[first |-> at + 1, last |-> minInt(words, at + chunkSize)]>>
         \o createDocumentChunksFrom(words, chunkSize, at + chunkSize)

createDocumentChunks(words, chunkSize) == createDocumentChunksFrom(words, chunkSize, 0)

LegacyEntry ==
    /\ impl = "sectionwise"
    /\ pc = "entry"
    /\ IF NotInitialized(service)
       THEN /\ result' = ErrorResult("Gemini client not initialized")
            /\ pc' = "done"
       ELSE /\ pc' = "pro"
            /\ UNCHANGED result
    /\ UNCHANGED <<fixed, loopVars, candidateChunks, i, chunkResults, hist>>

\* What follows the answer r of the single-call stage.
LegacySingleCall(r) ==
    LET text == cleanJSONResponse(r.text)
        u == LegacyUnmarshal(text, NilSlice)
    IN  [ok |-> r.kind = "text" /\ ~u.err /\ SliceLen(u.v) > 0, sections |-> u.v,
         raw |-> text]

\* aggregateChunksWithModel of sectionwise.go
LegacyAggregateChunksWithModel(r) ==
    LET u == LegacyUnmarshal(cleanJSONResponse(r.text), NilSlice)
    IN  [nil |-> r.kind # "text" \/ u.err, aggregated |-> u.v]

LegacySingleOutcome(r) ==
    LET s == LegacySingleCall(r) IN
    IF s.ok
    THEN /\ result' = Result("single_call", s.sections, s.raw, 0)
         /\ pc' = "done"
         /\ UNCHANGED candidateChunks
    ELSE /\ candidateChunks' = createDocumentChunks(doc.words, LegacyChunkSize)
         /\ pc' = "lchunk"
         /\ UNCHANGED result

\* 1. The single call on the Pro model; only an error of the call hands
\* the prompt to the Flash model.
LegacyPro ==
    /\ impl = "sectionwise"
    /\ pc = "pro"
    /\ \E r \in SingleResponses :
         /\ hist' = Called(hist, "primary", r)
         /\ IF r.kind = "error"
            THEN pc' = "flash" /\ UNCHANGED <<result, candidateChunks>>
            ELSE LegacySingleOutcome(r)
    /\ UNCHANGED <<fixed, loopVars, i, chunkResults>>

LegacyFlash ==
    /\ impl = "sectionwise"
    /\ pc = "flash"
    /\ \E r \in SingleResponses :
         /\ hist' = Called(hist, "secondary", r)
         /\ LegacySingleOutcome(r)
    /\ UNCHANGED <<fixed, loopVars, i, chunkResults>>

\* 2. One chunk: one call on the Flash model, no retry; every answer that
\* decodes without error is kept, the empty list and null included.
LegacyChunk ==
    /\ impl = "sectionwise"
    /\ pc = "lchunk"
    /\ i <= Len(candidateChunks)
    /\ \E r \in ChunkResponses :
         LET u == LegacyUnmarshal(cleanJSONResponse(r.text), NilSlice)
             h == [Called(hist, "attempts", r) EXCEPT !.chunks = @ \cup {i}]
         IN
         /\ hist' = IF r.kind = "text" THEN Slept(h, i) ELSE h
         /\ chunkResults' = IF r.kind = "text" /\ ~u.err
                            THEN Append(chunkResults, u.v.elems) ELSE chunkResults
    /\ i' = i + 1
    /\ UNCHANGED <<fixed, loopVars, pc, candidateChunks, result>>

\* 3. After the loop: chunk_failed without a chunk result, else the model
\* aggregation and, when it returns nil, the programmatic one.
LegacyAggregate ==
    /\ impl = "sectionwise"
    /\ pc = "lchunk"
    /\ i > Len(candidateChunks)
    /\ IF Len(chunkResults) = 0
       THEN /\ result' = Result("chunk_failed", SliceOf(<<>>), <<>>, 0)
            /\ UNCHANGED hist
       ELSE \E r \in AggregateResponses :
            LET a == LegacyAggregateChunksWithModel(r) IN
            IF ~a.nil
            THEN /\ result' = Result("chunk_model_aggregate", a.aggregated, <<>>, 0)
                 /\ hist' = [Called(hist, "aggregate", r) EXCEPT !.by = "model"]
            ELSE \E final \in programmaticAggregate(chunkResults) :
                 /\ result' = Result("chunk_programmatic_aggregate", SliceOf(final),
                                     <<>>, 0)
                 /\ hist' = [Called(hist, "aggregate", r) EXCEPT !.by = "programmatic"]
    /\ pc' = "done"
    /\ UNCHANGED <<fixed, loopVars, candidateChunks, i, chunkResults>>

\* ------------------------------------------------------------- ExtractSOW
SowResult(mode, final, raw, list) ==
    [status |-> "ok", mode |-> mode, final |-> final, raw_single |-> raw,
     chunk_parsed_list |-> list]

SowEntry ==
    /\ impl = "sow"
    /\ pc = "entry"
    /\ IF Len(doc.pages) = 0
       THEN /\ result' = ErrorResult("no pages provided")
            /\ pc' = "done"
       ELSE /\ pc' = "wsingle"
            /\ UNCHANGED result
    /\ UNCHANGED <<fixed, loopVars, candidateChunks, i, chunkResults, hist>>

\* 1. The single call on gemini-2.5-pro.
SowSingle ==
    /\ impl = "sow"
    /\ pc = "wsingle"
    /\ \E r \in SowResponses :
         LET c == callModelForPrompt(r) IN
         /\ hist' = Called(hist, "primary", r)
         /\ IF ~c.err
            THEN /\ result' = SowResult("single_call", c.parsed, c.raw, <<>>)
                 /\ pc' = "done"
                 /\ UNCHANGED candidateChunks
            ELSE /\ candidateChunks' =
                       makeChunksFromPages(doc.pages, PagesPerChunk, OverlapPages)
                 /\ pc' = "wchunk"
                 /\ UNCHANGED result
    /\ UNCHANGED <<fixed, loopVars, i, chunkResults>>

\* 2. One chunk: one call on gemini-2.5-flash, a placeholder on an error.
SowChunk ==
    /\ impl = "sow"
    /\ pc = "wchunk"
    /\ i <= Len(candidateChunks)
    /\ \E r \in SowResponses :
         LET c == callModelForPrompt(r) IN
         /\ hist' = Slept([Called(hist, "attempts", r) EXCEPT !.chunks = @ \cup {i}], i)
         /\ chunkResults' = Append(chunkResults,
                                   IF c.err THEN SowPlaceholder ELSE c.parsed)
    /\ i' = i + 1
    /\ UNCHANGED <<fixed, loopVars, pc, candidateChunks, result>>

\* 3. and 4. The aggregation call, then the programmatic merge.
SowAggregate ==
    /\ impl = "sow"
    /\ pc = "wchunk"
    /\ i > Len(candidateChunks)
    /\ \E r \in SowResponses :
         LET c == callModelForPrompt(r) IN
         IF ~c.err
         THEN /\ result' = SowResult("chunk_aggregate_model", c.parsed, <<>>, chunkResults)
              /\ hist' = [Called(hist, "aggregate", r) EXCEPT !.by = "model"]
         ELSE /\ result' = SowResult("chunk_aggregate_programmatic",
                                     programmaticMerge(chunkResults), <<>>, chunkResults)
              /\ hist' = [Called(hist, "aggregate", r) EXCEPT !.by = "programmatic"]
    /\ pc' = "done"
    /\ UNCHANGED <<fixed, loopVars, candidateChunks, i, chunkResults>>

\* --------------------------------------------------- ExtractTenderSummary
TenderResult(mode, final, raw, count) ==
    [status |-> "ok", mode |-> mode, final |-> final, raw_single |-> raw,
     partials_count |-> count]

\* callGeminiFlash: an error without a call when the service or its Flash
\* model is missing (a service that is nil has no model; the client is not
\* looked at), an error on a failed call or a response without candidate or
\* content, else the text of the parts.
callGeminiFlash(g, r) ==
    IF ~g.flashModel THEN [err |-> TRUE, text |-> <<>>, called |-> FALSE]
    ELSE [err |-> r.kind # "text", text |-> r.text, called |-> TRUE]

TenderCalled(h, stage, r, c) == IF c.called THEN Called(h, stage, r) ELSE h

\* Opening the file and extracting its pages.
TenderEntry ==
    /\ impl = "tender"
    /\ pc = "entry"
    /\ IF doc.fails = "open"
       THEN result' = ErrorResult("failed to open PDF") /\ pc' = "done"
       ELSE IF doc.fails = "parse"
       THEN result' = ErrorResult("failed to extract pages") /\ pc' = "done"
       ELSE pc' = "tsingle" /\ UNCHANGED result
    /\ UNCHANGED <<fixed, loopVars, candidateChunks, i, chunkResults, hist>>

\* 1. The single call on the Flash model.
TenderSingle ==
    /\ impl = "tender"
    /\ pc = "tsingle"
    /\ \E r \in TenderResponses :
         LET c == callGeminiFlash(service, r)
             parsed == TenderSafeParseJSON(c.text)
         IN
         /\ hist' = TenderCalled(hist, "primary", r, c)
         /\ IF ~c.err /\ ~parsed.nil
            THEN /\ result' = TenderResult("single_call", parsed.v, c.text, 0)
                 /\ pc' = "done"
                 /\ UNCHANGED candidateChunks
            ELSE /\ candidateChunks' =
                       TenderMakeChunksFromPages(doc.pages, PagesPerChunk, OverlapPages)
                 /\ pc' = "tchunk"
                 /\ UNCHANGED result
    /\ UNCHANGED <<fixed, loopVars, i, chunkResults>>

\* 2. One chunk: one call; the parsed summary with its page provenance, or
\* the empty summary on an error or an answer that does not parse.
TenderChunk ==
    /\ impl = "tender"
    /\ pc = "tchunk"
    /\ i <= Len(candidateChunks)
    /\ \E r \in TenderResponses :
         LET c == callGeminiFlash(service, r)
             parsed == TenderSafeParseJSON(c.text)
             chunk == candidateChunks[i]
             summaryData ==
                 addProvenanceToSummary(
                     [parsed.v EXCEPT !.project_overview =
                         WithPageRef(@, chunk.StartPage, chunk.EndPage)],
                     chunk.StartPage, chunk.EndPage)
         IN
         /\ hist' = LET h == IF c.called
                              THEN [Called(hist, "attempts", r) EXCEPT !.chunks = @ \cup {i}]
                              ELSE hist
                    IN  IF c.err THEN h ELSE Slept(h, i)
         /\ chunkResults' = Append(chunkResults,
                                   IF ~c.err /\ ~parsed.nil THEN summaryData
                                   ELSE getEmptyTenderSummary)
    /\ i' = i + 1
    /\ UNCHANGED <<fixed, loopVars, pc, candidateChunks, result>>

\* 3. The merge of the partial summaries.
TenderAggregate ==
    /\ impl = "tender"
    /\ pc = "tchunk"
    /\ i > Len(candidateChunks)
    /\ result' = TenderResult("chunked_fallback", mergeTenderObjects(chunkResults),
                              <<>>, Len(chunkResults))
    /\ pc' = "done"
    /\ UNCHANGED <<fixed, loopVars, candidateChunks, i, chunkResults, hist>>

Next ==
    \/ Entry
    \/ PrimarySingle
    \/ SecondarySingle
    \/ NextChunk
    \/ ChunkAttempt
    \/ Aggregate
    \/ ModelAggregate
    \/ LegacyEntry
    \/ LegacyPro
    \/ LegacyFlash
    \/ LegacyChunk
    \/ LegacyAggregate
    \/ SowEntry
    \/ SowSingle
    \/ SowChunk
    \/ SowAggregate
    \/ TenderEntry
    \/ TenderSingle
    \/ TenderChunk
    \/ TenderAggregate

Spec == Init /\ [][Next]_vars

\* ------------------------------------------- the loop of makeChunksFromPages
\* Bounds of the runs of the loop.
MaxSegPages == 5
MaxPagesPerChunk == 3
MaxOverlap == 3

SegPages(n) == [k \in 1..n |-> BulkPage]

InitSeg ==
    /\ PipeInit("none")
    /\ service = Configured
    /\ doc = Unmarked(0)
    /\ fun = FunIdle
    /\ ws = WsIdle
    /\ vs = VsIdle
    /\ \E n \in 0..MaxSegPages, p \in 1..MaxPagesPerChunk, o \in 0..MaxOverlap :
          seg = [pc |-> "start", n |-> n, pagesPerChunk |-> p, overlapPages |-> o,
                 i |-> 0, chunks |-> <<>>]

\* n == 0 returns the empty list.
SegStart ==
    /\ seg.pc = "start"
    /\ seg' = [seg EXCEPT !.pc = IF seg.n = 0 THEN "done" ELSE "loop"]
    /\ UNCHANGED <<pipe, fun, ws, vs>>

\* One iteration of for i < n.  A negative i indexes pageTexts below 0, a
\* run-time panic.  A run that has built more chunks than there are pages
\* makes no progress and is followed no further.
SegIterate ==
    /\ seg.pc = "loop"
    /\ Len(seg.chunks) <= seg.n
    /\ IF ~(seg.i < seg.n) THEN seg' = [seg EXCEPT !.pc = "done"]
       ELSE IF seg.i < 0 THEN seg' = [seg EXCEPT !.pc = "panic"]
       ELSE LET c == ChunkAt(SegPages(seg.n), seg.pagesPerChunk, seg.i) IN
            seg' = [seg EXCEPT
                      !.chunks = Append(@, c),
                      !.pc = IF c.EndPage = seg.n THEN "done" ELSE "loop",
                      !.i = IF c.EndPage = seg.n THEN @
                            ELSE SegNextIndex(c.EndPage, seg.overlapPages)]
    /\ UNCHANGED <<pipe, fun, ws, vs>>

NextSeg == SegStart \/ SegIterate

SpecSeg == InitSeg /\ [][NextSeg]_vars /\ WF_vars(NextSeg)

\* -------------------------------------------- filterCandidateChunks applied
MaxFilterChunks == 3

FilterTexts ==
    { << <<"abc", "abc">> >>,
      << <<"ABCD">> >>,
      << <<"AB">> >>,
      << <<"abc">>, <<"\\bscope\\b">> >>,
      << <<"scope">> >>,
      << <<LongWord, LongWord, LongWord>> >>,
      << [k \in 1..HeadingMaxWords |-> "AB"] >>,
      << <<PageMarker(1)>>, <<"abc">> >> }

FilterInputs ==
    UNION { { [k \in 1..n |->
                 [StartPage |-> k, EndPage |-> k, Text |-> f[k],
                  PageRange |-> ToString(k) \o "-" \o ToString(k)]]
              : f \in [1..n -> FilterTexts] }
            : n \in 0..MaxFilterChunks }

\* Pages of running text, with a heading, with a keyword and with a keyword
\* between the backslashes the patterns ask for.
FilterPages ==
    { << <<"abc", "abc">> >>,
      << <<"abc">>, <<"ABCD">> >>,
      << <<"abc", "scope">> >>,
      << <<"abc">>, <<"\\bscope\\b">> >> }

\* The chunks makeChunksFromPages builds from such pages, one page a chunk.
BuiltInputs ==
    UNION { { makeChunksFromPages(pg, 1, 0) : pg \in [1..n -> FilterPages] }
            : n \in 1..MaxFilterChunks }

InitFilter ==
    /\ PipeInit("none")
    /\ service = Configured
    /\ doc = Unmarked(0)
    /\ seg = SegIdle
    /\ ws = WsIdle
    /\ vs = VsIdle
    /\ \E a \in FilterInputs \cup BuiltInputs :
          fun = [name |-> "filterCandidateChunks", arg |-> a, out |-> <<>>, done |-> FALSE]

ApplyFilter ==
    /\ fun.name = "filterCandidateChunks"
    /\ ~fun.done
    /\ fun' = [fun EXCEPT !.out = filterCandidateChunks(fun.arg), !.done = TRUE]
    /\ UNCHANGED <<pipe, seg, ws, vs>>

SpecFilter == InitFilter /\ [][ApplyFilter]_vars

\* ----------------------------------------- programmaticAggregate applied
\* The partial results are lists of at most MaxAggChunks chunks.
MaxAggChunks == 3

\* A section whose own considerations repeat a text in another case, and a
\* section without a name whose summary normalizes to the name of the first.
DupSection ==
    [section_name |-> <<"N">>, section_summary |-> <<"d", "d">>,
     key_considerations |-> SliceOf(<<KC(<<"d">>, TRUE), KC(<<"D">>, FALSE)>>)]
AnonSection ==
    [section_name |-> <<>>, section_summary |-> <<"n">>,
     key_considerations |-> SliceOf(<<KC(<<"a">>, FALSE)>>)]

\* What one chunk contributes to chunkResults (never an empty list: the
\* loop appends only lists with an element).
\* A section whose summary holds a code fence and whose consideration has
\* blanks at both ends.
FenceSection ==
    [section_name |-> <<"x">>, section_summary |-> FenceJson \o <<" ", "a">>,
     key_considerations |-> SliceOf(<<KC(<<" ", "k", " ">>, TRUE)>>)]

\* A section of the group of o1 and o2 whose summary is as long as that of o1.
TieSection ==
    [section_name |-> <<"e", "l">>, section_summary |-> <<"b">>,
     key_considerations |-> NilSlice]

\* A section of the key of FenceSection whose summary has fewer bytes than
\* that of FenceSection and more characters than it has tokens.
PlainSection ==
    [section_name |-> <<"X">>, section_summary |-> [k \in 1..7 |-> "a"],
     key_considerations |-> NilSlice]

AggChunks ==
    { <<SectionOf("o1")>>, <<SectionOf("o2")>>, <<DupSection>>, <<ZeroSection>>,
      <<AnonSection, ZeroSection>>, <<SectionOf("o2"), SectionOf("o1")>>,
      <<FenceSection>>, <<TieSection>>, <<PlainSection>> }

AggInputs == UNION { [1..n -> AggChunks] : n \in 0..MaxAggChunks }

Front(s) == SubSeq(s, 1, Len(s) - 1)

\* The partial results of the scope-of-work chunks: the placeholder of a
\* failed chunk and the values the answers {}, w1 and w2 decode to.
FenceSow ==
    [ZeroSow EXCEPT
       !.project_overview.location = <<" ", "b", " ">>,
       !.major_work_components = SliceOf(<<MWC(<<"3">>, Fence \o <<"x">>)>>)]

\* A scope of work with two components whose descriptions differ in the
\* number of blanks between their words.
SpacedSow ==
    [ZeroSow EXCEPT
       !.major_work_components =
           SliceOf(<<MWC(<<"4">>, <<"a", " ", "b">>),
                     MWC(<<"4">>, <<"a", " ", " ", "b">>)>>)]

SowPartials ==
    {SowPlaceholder, ZeroSow, DecodeSow(ZeroSow, "w1"), DecodeSow(ZeroSow, "w2"),
     FenceSow, SpacedSow}

SowInputs == UNION { [1..n -> SowPartials] : n \in 0..MaxAggChunks }

\* A tender summary with more eligibility highlights than the merge keeps.
ManyHighlights ==
    [ZeroTender EXCEPT
       !.project_overview = <<"a", "b", " ">>,
       !.eligibility_highlights =
           SliceOf(<< <<"a">>, <<"b">>, <<"e">>, <<"k">>, <<"l">> >>)]

\* The partial results of the tender chunks: the placeholder of a failed
\* chunk, the values the answers {}, t1 and t2 decode to, and one more.
FenceTender ==
    [ZeroTender EXCEPT
       !.project_overview = <<" ", "bq", " ">>,
       !.important_dates.pre_bid_queries = <<"x", " ">> \o Fence \o <<" ", "x">>,
       !.risk_analysis.penalty_risk = <<" ", "k", " ">>]

\* A tender summary with two highlights that differ in the number of blanks
\* between their words, and two dates whose names differ in a blank at the
\* end.
SpacedTender ==
    [ZeroTender EXCEPT
       !.eligibility_highlights =
           SliceOf(<< <<"a", " ", "b">>, <<"a", " ", " ", "b">> >>),
       !.important_dates.other_dates =
           SliceOf(<<DateEntry(<<"n">>, <<"d">>), DateEntry(<<"n", " ">>, <<"d">>)>>)]

TenderPartials ==
    {getEmptyTenderSummary, ZeroTender, DecodeTender(ZeroTender, "t1"),
     DecodeTender(ZeroTender, "t2"), ManyHighlights, FenceTender, SpacedTender}

TenderInputs == UNION { [1..n -> TenderPartials] : n \in 0..MaxAggChunks }

InitAgg ==
    /\ PipeInit("none")
    /\ service = Configured
    /\ doc = Unmarked(0)
    /\ seg = SegIdle
    /\ ws = WsIdle
    /\ vs = VsIdle
    /\ \/ \E a \in AggInputs :
            fun = [name |-> "programmaticAggregate", arg |-> a, out |-> <<>>,
                   done |-> FALSE]
       \/ \E a \in SowInputs :
            fun = [name |-> "programmaticMerge", arg |-> a, out |-> <<>>, done |-> FALSE]
       \/ \E a \in TenderInputs :
            fun = [name |-> "mergeTenderObjects", arg |-> a, out |-> <<>>, done |-> FALSE]

\* Executions of programmaticAggregate: two on the whole list (direct and
\* again), and one in two stages (staged), the list without its last chunk
\* first, then the outcome of that together with the last chunk.  back is
\* what the text of direct, written by json.Marshal, is cleaned and decoded
\* to.
ApplyAggregate ==
    /\ fun.name = "programmaticAggregate"
    /\ ~fun.done
    /\ \E direct \in programmaticAggregate(fun.arg),
          again \in programmaticAggregate(fun.arg) :
          \E staged \in
                IF fun.arg = <<>> THEN programmaticAggregate(<<>>)
                ELSE UNION { programmaticAggregate(<<ab, fun.arg[Len(fun.arg)]>>)
                               : ab \in programmaticAggregate(Front(fun.arg)) } :
             fun' = [fun EXCEPT
                       !.out = [direct |-> direct, again |-> again, staged |-> staged,
                                back |-> UnmarshalSections(
                                    cleanJSONResponse(MarshalSections(SliceOf(direct))),
                                    NilSlice)],
                       !.done = TRUE]
    /\ UNCHANGED <<pipe, seg, ws, vs>>

\* programmaticMerge on the whole list, and in two stages.
ApplyMerge ==
    /\ fun.name = "programmaticMerge"
    /\ ~fun.done
    /\ fun' = [fun EXCEPT
                 !.out = [direct |-> programmaticMerge(fun.arg),
                          again |-> programmaticMerge(fun.arg),
                          staged |->
                             IF fun.arg = <<>> THEN programmaticMerge(<<>>)
                             ELSE programmaticMerge(<<programmaticMerge(Front(fun.arg)),
                                                      fun.arg[Len(fun.arg)]>>),
                          back |-> SowSafeParseText(MarshalSow(programmaticMerge(fun.arg)))],
                 !.done = TRUE]
    /\ UNCHANGED <<pipe, seg, ws, vs>>

\* mergeTenderObjects on the whole list, and in two stages.
ApplyTenderMerge ==
    /\ fun.name = "mergeTenderObjects"
    /\ ~fun.done
    /\ fun' = [fun EXCEPT
                 !.out = [direct |-> mergeTenderObjects(fun.arg),
                          again |-> mergeTenderObjects(fun.arg),
                          staged |->
                             IF fun.arg = <<>> THEN mergeTenderObjects(<<>>)
                             ELSE mergeTenderObjects(<<mergeTenderObjects(Front(fun.arg)),
                                                       fun.arg[Len(fun.arg)]>>),
                          back |-> TenderSafeParseText(
                                       MarshalTender(mergeTenderObjects(fun.arg)))],
                 !.done = TRUE]
    /\ UNCHANGED <<pipe, seg, ws, vs>>

NextAgg == ApplyAggregate \/ ApplyMerge \/ ApplyTenderMerge

SpecAgg == InitAgg /\ [][NextAgg]_vars

\* ------------------------------------------------- the sanitizers applied
\* The texts handed to a sanitizer: at most MaxTextLen tokens, each a
\* backquote, the word json in either case, a blank or another character.
MaxTextLen == 7

TextTokens == {"bq", "json", "JSON", " ", "x"}

Texts == UNION { [1..n -> TextTokens] : n \in 0..MaxTextLen }

Sanitizers == {"cleanJSONResponse", "SOWExtractor.cleanModelOutput",
               "TenderSummaryExtractor.cleanModelOutput"}

InitClean ==
    /\ PipeInit("none")
    /\ service = Configured
    /\ doc = Unmarked(0)
    /\ seg = SegIdle
    /\ ws = WsIdle
    /\ vs = VsIdle
    /\ \E f \in Sanitizers, x \in Texts :
          fun = [name |-> f, arg |-> x, out |-> <<>>, done |-> FALSE]

\* The sanitizer applied to the text, and applied to its own output.
ApplyCleanJSONResponse ==
    /\ fun.name = "cleanJSONResponse"
    /\ ~fun.done
    /\ fun' = [fun EXCEPT
                 !.out = [once |-> cleanJSONResponse(fun.arg),
                          twice |-> cleanJSONResponse(cleanJSONResponse(fun.arg))],
                 !.done = TRUE]
    /\ UNCHANGED <<pipe, seg, ws, vs>>

ApplySowClean ==
    /\ fun.name = "SOWExtractor.cleanModelOutput"
    /\ ~fun.done
    /\ fun' = [fun EXCEPT
                 !.out = [once |-> SowCleanModelOutput(fun.arg),
                          twice |-> SowCleanModelOutput(SowCleanModelOutput(fun.arg))],
                 !.done = TRUE]
    /\ UNCHANGED <<pipe, seg, ws, vs>>

ApplyTenderClean ==
    /\ fun.name = "TenderSummaryExtractor.cleanModelOutput"
    /\ ~fun.done
    /\ fun' = [fun EXCEPT
                 !.out = [once |-> TenderCleanModelOutput(fun.arg),
                          twice |-> TenderCleanModelOutput(TenderCleanModelOutput(fun.arg))],
                 !.done = TRUE]
    /\ UNCHANGED <<pipe, seg, ws, vs>>

NextClean == ApplyCleanJSONResponse \/ ApplySowClean \/ ApplyTenderClean

SpecClean == InitClean /\ [][NextClean]_vars

\* ------------------------------------------- the parsers on answer texts
\* The answers the parsers are applied to: up to MaxParseLen tokens, bare
\* or inside a code fence.  t1 and w1 are JSON objects, x any other word.
MaxParseLen == 4

ParseTokens == {"t1", "w1", "x", "[", "]"}

ParseTexts ==
    LET bare == UNION { [1..n -> ParseTokens] : n \in 0..MaxParseLen }
    IN  bare \cup {Fenced(t) : t \in bare}

Parsers == {"json.Unmarshal", "SOWExtractor.safeParseJSON",
            "TenderSummaryExtractor.safeParseJSON"}

InitParse ==
    /\ PipeInit("none")
    /\ service = Configured
    /\ doc = Unmarked(0)
    /\ seg = SegIdle
    /\ ws = WsIdle
    /\ vs = VsIdle
    /\ \E f \in Parsers, x \in ParseTexts :
          fun = [name |-> f, arg |-> x, out |-> <<>>, done |-> FALSE]

\* The section-wise pipelines: cleanJSONResponse, then json.Unmarshal into
\* a nil list of sections.  none tells that no value was parsed.
ApplySectionParse ==
    /\ fun.name = "json.Unmarshal"
    /\ ~fun.done
    /\ LET u == Unmarshal(cleanJSONResponse(fun.arg), NilSlice)
       IN  fun' = [fun EXCEPT !.out = [none |-> u.err, v |-> u.v], !.done = TRUE]
    /\ UNCHANGED <<pipe, seg, ws, vs>>

ApplySowParse ==
    /\ fun.name = "SOWExtractor.safeParseJSON"
    /\ ~fun.done
    /\ LET q == SowSafeParseJSON(fun.arg)
       IN  fun' = [fun EXCEPT !.out = [none |-> q.err, v |-> q.parsed], !.done = TRUE]
    /\ UNCHANGED <<pipe, seg, ws, vs>>

ApplyTenderParse ==
    /\ fun.name = "TenderSummaryExtractor.safeParseJSON"
    /\ ~fun.done
    /\ LET q == TenderSafeParseJSON(fun.arg)
       IN  fun' = [fun EXCEPT !.out = [none |-> q.nil, v |-> q.v], !.done = TRUE]
    /\ UNCHANGED <<pipe, seg, ws, vs>>

NextParse == ApplySectionParse \/ ApplySowParse \/ ApplyTenderParse

SpecParse == InitParse /\ [][NextParse]_vars

\* ------------------------------------------- AnalyzeTenderDocument
\* What GenerateContent returns: an error, or a response with no candidate,
\* with a first candidate without content parts, or with the text of its
\* parts; finish is the finish reason of the first candidate.
Gen(kind, finish, text) == [kind |-> kind, finish |-> finish, text |-> text]

FinishReasons == {"FinishReasonStop", "FinishReasonMaxTokens"}

GenAnswers ==
    {Gen("error", "", <<>>), Gen("nocand", "", <<>>)}
        \cup {Gen("noparts", f, <<>>) : f \in FinishReasons}
        \cup {Gen("text", f, t) : f \in FinishReasons,
                                 t \in {<<"o1">>, Fenced(<<"o1">>)}}

Services == [client : BOOLEAN, proModel : BOOLEAN, flashModel : BOOLEAN]

\* GeminiService.AnalyzeTenderDocument with pro and flash the answers of
\* the two models: the calls made, the error returned ("" for nil), the
\* message returned with an error and the text returned without.
AnalyzeTenderDocument(g, pro, flash) ==
    LET failed(calls, err, msg) ==
            [calls |-> calls, err |-> err, msg |-> msg, text |-> <<>>]
        after(calls, resp) ==
            IF resp.kind = "nocand"
            THEN failed(calls, "no candidates returned from Gemini", "empty response")
            ELSE IF resp.kind = "noparts"
            THEN IF resp.finish = "FinishReasonMaxTokens"
                 THEN failed(calls, "response truncated due to max tokens", "truncated")
                 ELSE failed(calls, "no content parts returned from Gemini",
                             "empty response")
            ELSE [calls |-> calls, err |-> "", msg |-> "",
                  text |-> cleanJSONResponse(resp.text)]
    IN  IF ~g.client \/ ~g.proModel \/ ~g.flashModel
        THEN failed(<<>>, "Gemini client not initialized", "not properly configured")
        ELSE IF pro.kind = "error"
        THEN IF flash.kind = "error"
             THEN failed(<<"pro", "flash">>,
                         "failed to get response from both Gemini models",
                         "having trouble")
             ELSE after(<<"pro", "flash">>, flash)
        ELSE after(<<"pro">>, pro)

InitAnalyze ==
    /\ PipeInit("none")
    /\ service \in Services
    /\ doc = Unmarked(0)
    /\ seg = SegIdle
    /\ ws = WsIdle
    /\ vs = VsIdle
    /\ \E pro \in GenAnswers, flash \in GenAnswers :
          fun = [name |-> "AnalyzeTenderDocument", arg |-> [pro |-> pro, flash |-> flash],
                 out |-> <<>>, done |-> FALSE]

ApplyAnalyze ==
    /\ fun.name = "AnalyzeTenderDocument"
    /\ ~fun.done
    /\ fun' = [fun EXCEPT
                 !.out = AnalyzeTenderDocument(service, fun.arg.pro, fun.arg.flash),
                 !.done = TRUE]
    /\ UNCHANGED <<pipe, seg, ws, vs>>

SpecAnalyze == InitAnalyze /\ [][ApplyAnalyze]_vars

\* ------------------------------------------------------ the VectorStore
\* The requests that call the store concurrently, and the calls they make
\* in all.
MaxStoreProcs == 2
MaxStoreCalls == 4

StoreProcs == 1..MaxStoreProcs

StoreChunkSize == 1000
DefaultChunkSize == 4000
DefaultTopK == 5
AnalyzeTopK == 5
SearchTopK == 10
MinWordLen == 2

\* The texts stored: sequences of lower-case words without punctuation
\* (strings.Fields, ToLower and Trim leave them as they are), one of them
\* longer than a chunk.
StoreLongWord == "abcdefghijklmnopqrstuvwxyzabcdefghijklmnopqrstuvwxyz"
ShortContent == <<"road", "of", "safety">>
LongContent == [k \in 1..20 |-> IF k < 20 THEN StoreLongWord ELSE "road"]
StoreContents == {ShortContent, LongContent}
StoreMetadata == {"m1", "m2"}
StoreQueries == {<<"road">>}

\* A mutant: every content gets the same document ID.
Md5Same(content) == "32e7aedf110c00e7db6c9f893c19095a"

\* fmt.Sprintf("%x", md5.Sum([]byte(content))) of the words of content
\* joined by single blanks.
Md5(content) ==
    IF content = ShortContent THEN "32e7aedf110c00e7db6c9f893c19095a"
    ELSE IF content = LongContent THEN "ea77e6cfa25a2afad8ac5667b2554a5d"
    ELSE "d41d8cd98f00b204e9800998ecf8427e"

StoreIDs == {Md5(c) : c \in StoreContents}
ContentOf(id) == CHOOSE c \in StoreContents : Md5(c) = id

\* PDFParser.ChunkText: cur holds the words of currentChunk and len its
\* length; a chunk is the sequence of its words.
RECURSIVE ChunkTextFrom(_, _, _, _)
ChunkTextFrom(words, maxChunkSize, cur, len) ==
    IF words = <<>> THEN IF len > 0 THEN <<cur>> ELSE <<>>
    ELSE LET word == Head(words)
             flush == len + Len(word) + 1 > maxChunkSize /\ len > 0
             cur1 == IF flush THEN <<>> ELSE cur
             len1 == IF flush THEN 0 ELSE len
             len2 == IF len1 > 0 THEN len1 + 1 + Len(word) ELSE Len(word)
         IN  (IF flush THEN <<cur>> ELSE <<>>)
                 \o ChunkTextFrom(Tail(words), maxChunkSize, Append(cur1, word), len2)

ChunkText(text, maxChunkSize) ==
    ChunkTextFrom(text, IF maxChunkSize <= 0 THEN DefaultChunkSize ELSE maxChunkSize,
                  <<>>, 0)

\* hash of generateSimpleEmbedding: (hash*31 + char) % 100 over the
\* characters of the word.
WordHash(word) ==
    CASE word = "road" -> 52
      [] word = "safety" -> 62
      [] word = "of" -> 43
      [] word = StoreLongWord -> 54
      [] OTHER -> 0

StoreBuckets == {52, 62, 43, 54}

RECURSIVE SumOver(_, _)
SumOver(f, S) ==
    IF S = {} THEN 0
    ELSE LET b == CHOOSE b \in S : TRUE IN f[b] + SumOver(f, S \ {b})

Dot(a, b) == SumOver([k \in StoreBuckets |-> a[k] * b[k]], StoreBuckets)

\* generateSimpleEmbedding.  A vector of reals is written [num, sq]: its
\* component b is num[b] / sqrt(sq).  num counts the words longer than 2
\* characters in each bucket (the buckets no word of the model falls in
\* hold 0) and sq is the square of the norm the counts are divided by; a
\* vector of zeros is not divided.
generateSimpleEmbedding(text) ==
    LET counts == [b \in StoreBuckets |->
                      Cardinality({k \in 1..Len(text) :
                                      Len(text[k]) > MinWordLen /\ WordHash(text[k]) = b})]
        norm2 == Dot(counts, counts)
    IN  [num |-> counts, sq |-> IF norm2 > 0 THEN norm2 ELSE 1]

\* cosineSimilarity, as the fraction num/den that is the square of the
\* cosine (no component is negative); 0 when a vector is zero.  With
\* dotProduct = Dot(a.num, b.num) / sqrt(a.sq * b.sq), normA = Dot(a.num,
\* a.num) / a.sq and normB likewise, the square of dotProduct / (sqrt(normA)
\* * sqrt(normB)) has a.sq * b.sq above and below the line.
cosineSimilarity(a, b) ==
    LET dot == Dot(a.num, b.num)
        normA == Dot(a.num, a.num)
        normB == Dot(b.num, b.num)
    IN  IF normA = 0 \/ normB = 0 THEN [num |-> 0, den |-> 1]
        ELSE [num |-> dot * dot * (a.sq * b.sq), den |-> normA * normB * (a.sq * b.sq)]

Greater(s, t) == s.num * t.den > t.num * s.den

\* The document AddDocument builds.
NewDocument(content, metadata) ==
    LET chunks == ChunkText(content, StoreChunkSize)
    IN  [id |-> Md5(content), content |-> content, metadata |-> metadata,
         chunks |-> [k \in 1..Len(chunks) |->
                       [id |-> <<Md5(content), k - 1>>, content |-> chunks[k],
                        embedding |-> generateSimpleEmbedding(chunks[k]),
                        page_num |-> k]]]

NoDocs == [id \in {} |-> NoDoc]
Put(documents, d) ==
    [id \in DOMAIN documents \cup {d.id} |-> IF id = d.id THEN d ELSE documents[id]]
Drop(documents, docID) == [id \in DOMAIN documents \ {docID} |-> documents[id]]

\* What a read of the map can find: the map, and, while a write of the map
\* is under way, the map with the document written or with a part of it.
Views ==
    IF vs.pending = NoDoc THEN {vs.documents}
    ELSE {vs.documents}
           \cup {Put(vs.documents, [vs.pending EXCEPT !.chunks = SubSeq(@, 1, n)])
                   : n \in 0..Len(vs.pending.chunks)}

\* The results of SearchSimilar on a map: every chunk of every document,
\* sorted by falling score (equal scores in any order: the map is ranged
\* over in any order and sort.Slice is not stable), the first topK of them.
SearchSimilarOn(documents, query, topK) ==
    LET all == UNION {{[chunk_id |-> documents[id].chunks[k].id,
                        content |-> documents[id].chunks[k].content,
                        score |-> cosineSimilarity(generateSimpleEmbedding(query),
                                                   documents[id].chunks[k].embedding),
                        document_id |-> id,
                        metadata |-> documents[id].metadata]
                          : k \in 1..Len(documents[id].chunks)}
                            : id \in DOMAIN documents}
        n == Cardinality(all)
        k0 == IF topK <= 0 THEN DefaultTopK ELSE topK
        sorted == {r \in [1..n -> all] :
                     /\ \A a, b \in 1..n : a # b => r[a] # r[b]
                     /\ \A a, b \in 1..n : a < b => ~Greater(r[b].score, r[a].score)}
    IN  {SubSeq(r, 1, minInt(k0, n)) : r \in sorted}

InitVs ==
    /\ PipeInit("none")
    /\ service = Configured
    /\ doc = Unmarked(0)
    /\ seg = SegIdle
    /\ fun = FunIdle
    /\ ws = WsIdle
    /\ vs = [documents |-> NoDocs, pending |-> NoDoc, writer |-> 0, readers |-> {},
             procs |-> [p \in StoreProcs |-> NoCall], calls |-> 0,
             live |-> {}, issued |-> {}, latest |-> [c \in StoreContents |-> ""]]

Writes == {"AddDocument", "DeleteDocument"}
Reads == {"GetDocument", "SearchSimilar", "ListDocuments", "ExportDocument",
          "AnalyzeDocument"}

\* A request calls the store (AnalyzeDocument is the handler, which calls
\* GetDocument and then SearchSimilar with topK 5).
Call(p) ==
    /\ vs.procs[p].pc = "idle"
    /\ vs.calls < MaxStoreCalls
    /\ \E c \in
          {[NoCall EXCEPT !.op = "AddDocument", !.content = t, !.metadata = m]
              : t \in StoreContents, m \in StoreMetadata}
          \cup {[NoCall EXCEPT !.op = o, !.id = id]
                  : o \in {"DeleteDocument", "GetDocument", "ExportDocument"},
                    id \in StoreIDs}
          \cup {[NoCall EXCEPT !.op = "AnalyzeDocument", !.id = id, !.query = q,
                               !.topK = AnalyzeTopK]
                  : id \in StoreIDs, q \in StoreQueries}
          \cup {[NoCall EXCEPT !.op = "SearchSimilar", !.query = q, !.topK = SearchTopK]
                  : q \in StoreQueries}
          \cup {[NoCall EXCEPT !.op = "ListDocuments"]} :
          vs' = [vs EXCEPT !.procs[p] = [c EXCEPT !.pc = "lock"], !.calls = @ + 1]
    /\ UNCHANGED <<pipe, seg, fun, ws>>

\* A mutant: the shared lock is given while a writer holds the lock.
RLockAnyTime(p) ==
    /\ vs.procs[p].pc \in {"lock", "lock2"}
    /\ vs.procs[p].op \in Reads
    /\ vs' = [vs EXCEPT !.readers = @ \cup {p},
                        !.procs[p].pc = IF @ = "lock" THEN "in" ELSE "in2"]
    /\ UNCHANGED <<pipe, seg, fun, ws>>

\* vs.mutex.Lock()
Lock(p) ==
    /\ vs.procs[p].pc = "lock"
    /\ vs.procs[p].op \in Writes
    /\ vs.writer = 0 /\ vs.readers = {}
    /\ vs' = [vs EXCEPT !.writer = p, !.procs[p].pc = "in"]
    /\ UNCHANGED <<pipe, seg, fun, ws>>

\* vs.mutex.RLock()
RLock(p) ==
    /\ vs.procs[p].pc \in {"lock", "lock2"}
    /\ vs.procs[p].op \in Reads
    /\ vs.writer = 0
    /\ vs' = [vs EXCEPT !.readers = @ \cup {p},
                        !.procs[p].pc = IF @ = "lock" THEN "in" ELSE "in2"]
    /\ UNCHANGED <<pipe, seg, fun, ws>>

\* AddDocument builds the document and starts the write of the map ...
AddDocumentBuild(p) ==
    /\ vs.procs[p].pc = "in"
    /\ vs.procs[p].op = "AddDocument"
    /\ vs' = [vs EXCEPT
                !.pending = NewDocument(vs.procs[p].content, vs.procs[p].metadata),
                !.procs[p].pc = "store"]
    /\ UNCHANGED <<pipe, seg, fun, ws>>

\* ... and the write is done: vs.documents[docID] = document.
AddDocumentStore(p) ==
    /\ vs.procs[p].pc = "store"
    /\ vs' = [vs EXCEPT
                !.documents = Put(@, vs.pending),
                !.pending = NoDoc,
                !.procs[p].ret = [id |-> vs.pending.id, err |-> FALSE],
                !.procs[p].pc = "unlock",
                !.live = @ \cup {vs.procs[p].content},
                !.issued = @ \cup {<<vs.procs[p].content, vs.pending.id>>},
                !.latest[vs.procs[p].content] = vs.procs[p].metadata]
    /\ UNCHANGED <<pipe, seg, fun, ws>>

DeleteDocument(p) ==
    /\ vs.procs[p].pc = "in"
    /\ vs.procs[p].op = "DeleteDocument"
    /\ LET docID == vs.procs[p].id
           exists == docID \in DOMAIN vs.documents
       IN  vs' = [vs EXCEPT
                    !.documents = IF exists THEN Drop(@, docID) ELSE @,
                    !.procs[p].ret = exists,
                    !.procs[p].pc = "unlock",
                    !.live = @ \ {c \in StoreContents : Md5(c) = docID}]
    /\ UNCHANGED <<pipe, seg, fun, ws>>

\* GetDocument, called by a request or by the handler AnalyzeDocument.
GetDocument(p) ==
    /\ vs.procs[p].pc = "in"
    /\ vs.procs[p].op \in {"GetDocument", "AnalyzeDocument"}
    /\ \E documents \in Views :
          LET docID == vs.procs[p].id
              exists == docID \in DOMAIN documents
              got == [doc |-> IF exists THEN documents[docID] ELSE NoDoc,
                      exists |-> exists]
          IN  vs' = [vs EXCEPT !.procs[p].got = got,
                               !.procs[p].ret =
                                   IF vs.procs[p].op = "GetDocument" THEN got ELSE @,
                               !.procs[p].pc = "unlock"]
    /\ UNCHANGED <<pipe, seg, fun, ws>>

\* SearchSimilar, called by a request or by the handler AnalyzeDocument.
SearchSimilar(p) ==
    /\ \/ vs.procs[p].pc = "in" /\ vs.procs[p].op = "SearchSimilar"
       \/ vs.procs[p].pc = "in2" /\ vs.procs[p].op = "AnalyzeDocument"
    /\ \E documents \in Views :
          \E results \in SearchSimilarOn(documents, vs.procs[p].query, vs.procs[p].topK) :
             vs' = [vs EXCEPT !.procs[p].ret = results, !.procs[p].pc = "unlock2"]
    /\ UNCHANGED <<pipe, seg, fun, ws>>

\* ListDocuments: the keys of the map in the order of a map iteration.
ListDocuments(p) ==
    /\ vs.procs[p].pc = "in"
    /\ vs.procs[p].op = "ListDocuments"
    /\ \E documents \in Views :
          \E docIDs \in {r \in [1..Cardinality(DOMAIN documents) -> DOMAIN documents] :
                           \A a, b \in DOMAIN r : a # b => r[a] # r[b]} :
             vs' = [vs EXCEPT !.procs[p].ret = docIDs, !.procs[p].pc = "unlock"]
    /\ UNCHANGED <<pipe, seg, fun, ws>>

\* ExportDocument: the document that json.MarshalIndent writes out, or the
\* error document not found.
ExportDocument(p) ==
    /\ vs.procs[p].pc = "in"
    /\ vs.procs[p].op = "ExportDocument"
    /\ \E documents \in Views :
          LET docID == vs.procs[p].id
              exists == docID \in DOMAIN documents
          IN  vs' = [vs EXCEPT
                       !.procs[p].ret = [doc |-> IF exists THEN documents[docID] ELSE NoDoc,
                                         err |-> ~exists],
                       !.procs[p].pc = "unlock"]
    /\ UNCHANGED <<pipe, seg, fun, ws>>

\* defer vs.mutex.Unlock()
Unlock(p) ==
    /\ vs.procs[p].pc = "unlock"
    /\ vs.procs[p].op \in Writes
    /\ vs' = [vs EXCEPT !.writer = 0, !.procs[p].pc = "idle", !.procs[p].done = TRUE]
    /\ UNCHANGED <<pipe, seg, fun, ws>>

\* defer vs.mutex.RUnlock().  AnalyzeDocument answers 404 when the document
\* does not exist, and goes on to SearchSimilar when it does.
RUnlock(p) ==
    /\ vs.procs[p].pc \in {"unlock", "unlock2"}
    /\ vs.procs[p].op \in Reads
    /\ LET c == vs.procs[p]
           analyze == c.op = "AnalyzeDocument"
       IN  vs' = [vs EXCEPT
                    !.readers = @ \ {p},
                    !.procs[p] =
                        IF analyze /\ c.pc = "unlock"
                        THEN IF c.got.exists THEN [c EXCEPT !.pc = "lock2"]
                             ELSE [c EXCEPT !.pc = "idle", !.done = TRUE,
                                            !.ret = [status |-> 404,
                                                     relevant_chunks |-> <<>>]]
                        ELSE IF analyze THEN [c EXCEPT !.pc = "respond"]
                        ELSE [c EXCEPT !.pc = "idle", !.done = TRUE]]
    /\ UNCHANGED <<pipe, seg, fun, ws>>

\* AnalyzeDocument answers: 500 when AnalyzeTenderDocument returned an
\* error, else 200 with the chunks of the search.
AnalyzeRespond(p) ==
    /\ vs.procs[p].pc = "respond"
    /\ \E ok \in BOOLEAN :
          vs' = [vs EXCEPT
                   !.procs[p].ret = IF ok THEN [status |-> 200, relevant_chunks |-> @]
                                    ELSE [status |-> 500, relevant_chunks |-> <<>>],
                   !.procs[p].pc = "idle",
                   !.procs[p].done = TRUE]
    /\ UNCHANGED <<pipe, seg, fun, ws>>

NextVs ==
    \E p \in StoreProcs :
        \/ Call(p)
        \/ Lock(p)
        \/ RLock(p)
        \/ AddDocumentBuild(p)
        \/ AddDocumentStore(p)
        \/ DeleteDocument(p)
        \/ GetDocument(p)
        \/ SearchSimilar(p)
        \/ ListDocuments(p)
        \/ ExportDocument(p)
        \/ Unlock(p)
        \/ RUnlock(p)
        \/ AnalyzeRespond(p)

SpecVs == InitVs /\ [][NextVs]_vars

\* ------------------------------------------- the WebSocket connection
\* One connection served by HandleWebSocket.  ws.loop is where the read
\* loop stands ("welcome", "pong" and "unknown" are the three calls of
\* WriteJSON it makes), ws.recv the types of the messages read so far,
\* ws.tasks[k] the goroutine started for the k-th message when that message
\* is a user_message, ws.writers the callers inside WriteJSON (0 is the read
\* loop, k the goroutine of message k), ws.raced the ones whose call
\* overlapped another, ws.sent the frames written, in order.
MaxClientMsgs == 2

ClientFrames == {"user_message", "ping", "other", "malformed"}

NoTask == [pc |-> "none", reply |-> "none"]

Frame(t, r, w) == [type |-> t, req |-> r, by |-> w]

\* The frame the writer is about to send, if any.
Pending(w) ==
    IF w = 0
    THEN CASE ws.loop = "welcome" -> <<Frame("system", 0, 0)>>
           [] ws.loop = "pong" -> <<Frame("pong", Len(ws.recv), 0)>>
           [] ws.loop = "unknown" -> <<Frame("error", Len(ws.recv), 0)>>
           [] OTHER -> <<>>
    ELSE CASE ws.tasks[w].pc = "typing" -> <<Frame("typing", w, w)>>
           [] ws.tasks[w].pc = "answer" -> <<Frame(ws.tasks[w].reply, w, w)>>
           [] OTHER -> <<>>

\* How a call of WriteJSON can end: what it put on the wire (nothing, the
\* whole frame or a broken one) and how it came back (nil, an error or a
\* panic).
Outcome(wire, ret) == [wire |-> wire, ret |-> ret]
Sent == Outcome("whole", "nil")
Failed == Outcome("none", "error")

\* On a connection HandleWebSocket has closed the write fails; once the
\* peer is gone it fails or is taken by the socket.  The connection
\* supports one writer at a time and nothing in the handler serialises the
\* callers: a call that overlapped another is a data race.  It can return
\* an error (the writer of one caller is closed by the other) or panic,
\* before the frame went out or after, and the frame that went out can be
\* whole or broken.
WriteOutcomes(w) ==
    (IF ws.loop = "returned" THEN {Failed}
     ELSE IF ws.peer = "gone" THEN {Failed, Sent}
     ELSE {Sent})
    \cup (IF w \in ws.raced
          THEN {Outcome(wire, ret) : wire \in {"none", "whole", "broken"},
                                     ret \in {"nil", "error", "panic"}}
                  \ {Outcome("none", "nil")}
          ELSE {})

\* err == nil after the call
Delivered(o) == o.ret = "nil"

\* handleUserMessage after a call of WriteJSON ended with outcome o: it goes
\* on after the typing frame when the call returned nil, and returns
\* otherwise.
AfterWrite(t, o) ==
    IF t.pc = "typing" /\ Delivered(o)
    THEN [t EXCEPT !.pc = "call"]
    ELSE [t EXCEPT !.pc = "done"]

InitWs ==
    /\ PipeInit("none")
    /\ service = Configured
    /\ doc = Unmarked(0)
    /\ fun = FunIdle
    /\ seg = SegIdle
    /\ vs = VsIdle
    /\ ws = [loop |-> "welcome", peer |-> "up", recv |-> <<>>,
             tasks |-> [k \in 1..MaxClientMsgs |-> NoTask],
             writers |-> {}, raced |-> {}, sent |-> <<>>, crashed |-> FALSE]

\* A caller enters WriteJSON.
WriteJSONBegin(w) ==
    /\ ~ws.crashed
    /\ w \notin ws.writers
    /\ Pending(w) # <<>>
    /\ ws' = [ws EXCEPT !.writers = @ \cup {w},
                        !.raced = IF ws.writers = {} THEN @
                                  ELSE @ \cup ws.writers \cup {w}]
    /\ UNCHANGED <<pipe, seg, fun, vs>>

\* The call returns.  A panic in a goroutine of handleUserMessage ends the
\* process; one in the handler is recovered by the middleware after the
\* deferred Close.
WriteJSONEnd(w) ==
    /\ ~ws.crashed
    /\ w \in ws.writers
    /\ \E o \in WriteOutcomes(w) :
          LET f == Pending(w)[1]
              wire == CASE o.wire = "whole" -> Append(ws.sent, f)
                        [] o.wire = "broken" -> Append(ws.sent, [f EXCEPT !.type = "garbled"])
                        [] OTHER -> ws.sent
          IN  ws' = [ws EXCEPT
                        !.writers = @ \ {w},
                        !.raced = @ \ {w},
                        !.sent = wire,
                        !.crashed = (o.ret = "panic" /\ w # 0),
                        !.loop = IF w # 0 THEN @
                                 ELSE IF Delivered(o) THEN "read" ELSE "returned",
                        !.tasks = IF w = 0 THEN @
                                  ELSE [@ EXCEPT ![w] = AfterWrite(@, o)]]
    /\ UNCHANGED <<pipe, seg, fun, vs>>

\* The read loop reads the next message and dispatches on its type.
ReadJSON ==
    /\ ~ws.crashed
    /\ ws.loop = "read"
    /\ \/ /\ ws.peer = "gone"
          /\ ws' = [ws EXCEPT !.loop = "returned"]
       \/ /\ ws.peer = "up"
          /\ Len(ws.recv) < MaxClientMsgs
          /\ \E t \in ClientFrames :
                ws' = [ws EXCEPT
                          !.recv = Append(@, t),
                          !.loop = CASE t = "malformed" -> "returned"
                                     [] t = "ping" -> "pong"
                                     [] t = "user_message" -> "read"
                                     [] OTHER -> "unknown",
                          !.tasks = IF t = "user_message"
                                    THEN [@ EXCEPT ![Len(ws.recv) + 1] =
                                             [pc |-> "typing", reply |-> "none"]]
                                    ELSE @]
    /\ UNCHANGED <<pipe, seg, fun, vs>>

\* The completion call of a goroutine returns, with an answer or an error.
GetChatResponse(k) ==
    /\ ~ws.crashed
    /\ ws.tasks[k].pc = "call"
    /\ \E r \in {"ai_response", "error"} :
          ws' = [ws EXCEPT !.tasks[k] = [pc |-> "answer", reply |-> r]]
    /\ UNCHANGED <<pipe, seg, fun, vs>>

\* The client goes away.
PeerGone ==
    /\ ~ws.crashed
    /\ ws.loop \notin {"off", "returned"}
    /\ ws.peer = "up"
    /\ ws' = [ws EXCEPT !.peer = "gone"]
    /\ UNCHANGED <<pipe, seg, fun, vs>>

NextWs ==
    \/ \E w \in 0..MaxClientMsgs : WriteJSONBegin(w)
    \/ \E w \in 0..MaxClientMsgs : WriteJSONEnd(w)
    \/ ReadJSON
    \/ \E k \in 1..MaxClientMsgs : GetChatResponse(k)
    \/ PeerGone

SpecWs == InitWs /\ [][NextWs]_vars

\* The server's own steps are taken when they can be: every caller of
\* WriteJSON gets in and out, and the completion call returns.
SpecWsFair ==
    /\ SpecWs
    /\ \A w \in 0..MaxClientMsgs :
          WF_vars(WriteJSONBegin(w)) /\ WF_vars(WriteJSONEnd(w))
    /\ \A k \in 1..MaxClientMsgs : WF_vars(GetChatResponse(k))


\* ================================================================ claims
Returned == pc = "done" /\ result.status = "ok"

\* Decodes to a non-empty list of sections, by the text alone.
NonEmptyList(r) ==
    /\ r.kind = "text"
    /\ LET u == Unmarshal(cleanJSONResponse(r.text), NilSlice)
       IN  ~u.err /\ ~u.v.isNil /\ u.v.elems # <<>>

\* C1: every result returned by ExtractSectionwiseAnalysis carries a
\* non-null final list, and when every backend call fails the result is
\* mode chunk_failed with an empty list.
C1_FinalNeverNull ==
    (impl = "chunked" /\ Returned) =>
        /\ ~result.final.isNil
        /\ hist.allFailed => (result.mode = "chunk_failed" /\ result.final = SliceOf(<<>>))

\* C2: ExtractSectionwiseAnalysis returns an error only when the backend is
\* not configured, and then it has made no backend call; in every other
\* case it ends with a result and no error.
C2_OnlyConfigError ==
    (impl = "chunked" /\ pc = "done") =>
        /\ result.status \in {"ok", "error"}
        /\ result.status = "error" <=> service # Configured
        /\ result.status = "error" =>
              (hist.primary = 0 /\ hist.secondary = 0 /\ hist.aggregate = 0
               /\ hist.chunks = {})

C2_Witness ==
    /\ impl = "chunked" /\ pc = "done" /\ result.status = "error"
    /\ service = NotConfigured /\ hist = NoHist

\* C3: a step of the primary single call ends in mode single_primary
\* exactly when the answer decodes to a non-empty list, a step of the
\* secondary single call (taken only after the primary failed) ends in mode
\* single_secondary exactly when its answer does, and once the chunked
\* stage has started the mode is never one of the two.
C3_SingleModes ==
    [][ /\ (impl = "chunked" /\ pc = "primary") =>
              /\ (result'.mode = "single_primary" /\ pc' = "done")
                     <=> NonEmptyList(hist'.answer)
              /\ ~NonEmptyList(hist'.answer) => pc' = "secondary"
        /\ (impl = "chunked" /\ pc = "secondary") =>
              /\ (result'.mode = "single_secondary" /\ pc' = "done")
                     <=> NonEmptyList(hist'.answer)
              /\ ~NonEmptyList(hist'.answer) => pc' = "chunk"
              /\ hist.primary = 1 /\ result.status = "none"
        /\ (impl = "chunked" /\ pc \in {"chunk", "attempt", "aggregate", "model"}) =>
              result'.mode \notin {"single_primary", "single_secondary"}
      ]_vars

C3_Witness ==
    /\ impl = "chunked" /\ Returned /\ result.mode = "single_secondary"
    /\ hist.primary = 1 /\ hist.secondary = 1
    /\ hist.answer = Resp("text", Fenced(<<"[", "o1", "]">>))

\* C4: no chunk is attempted once maxConsecutiveNoNew chunks in a row have
\* failed all their attempts: every chunk a call was made for lies at most
\* maxConsecutiveNoNew places after the last chunk that succeeded, and the
\* loop is left as soon as the counter reaches the threshold.  With 10
\* chunks of which chunks 4 to 9 fail, chunk 10 gets no call.
C4_EarlyStop ==
    impl = "chunked" =>
        /\ \A k \in hist.chunks : k <= hist.lastOk + maxConsecutiveNoNew
        /\ pc \in {"chunk", "attempt"} => consecutiveNoNew < maxConsecutiveNoNew

C4_Witness ==
    /\ impl = "chunked" /\ Returned
    /\ Len(candidateChunks) = 10
    /\ hist.lastOk = 3
    /\ Len(chunkResults) = 3
    /\ hist.chunks = 1..9
    /\ processedCount = 9

\* C5: with zero partial results the result is mode chunk_failed with an
\* empty final and no aggregation call was made; a document of zero pages
\* gets no chunk-stage call at all.
C5_NoPartials ==
    (impl = "chunked" /\ Returned
        /\ result.mode \notin {"single_primary", "single_secondary"}) =>
        /\ Len(chunkResults) = 0 =>
              /\ result.mode = "chunk_failed"
              /\ result.final = SliceOf(<<>>)
              /\ hist.aggregate = 0
        /\ Len(extractTextByPage(doc)) = 0 =>
              (hist.chunks = {} /\ Len(chunkResults) = 0)

C5_Witness ==
    /\ impl = "chunked" /\ Returned /\ result.mode = "chunk_failed"
    /\ Len(extractTextByPage(doc)) = 0
    /\ hist.secondary = 1

\* C6: with at least one partial result the mode tells which aggregation
\* produced final: the mode of a model aggregation differs from the mode of
\* a programmatic aggregation.
C6_ModeTellsStrategy ==
    (impl \in {"chunked", "sectionwise"} /\ Returned /\ Len(chunkResults) >= 1) =>
        /\ hist.by = "model" => result.mode \in {"chunk_optimized", "chunk_model_aggregate"}
        /\ hist.by = "programmatic" => result.mode = "chunk_programmatic_aggregate"

\* C7: the mode of every result of every extraction (section-wise,
\* ExtractSOW, ExtractTenderSummary) is one of single_primary,
\* single_secondary, chunk_optimized, chunk_model_aggregate,
\* chunk_programmatic_aggregate, chunk_failed.
C7_SixModes ==
    Returned =>
        result.mode \in {"single_primary", "single_secondary", "chunk_optimized",
                         "chunk_model_aggregate", "chunk_programmatic_aggregate",
                         "chunk_failed"}

\* The mode strings in the return statements of each extraction.
ModesOf(m) ==
    CASE m = "chunked" ->
           {"single_primary", "single_secondary", "chunk_optimized", "chunk_failed"}
      [] m = "sectionwise" ->
           {"single_call", "chunk_model_aggregate", "chunk_programmatic_aggregate",
            "chunk_failed"}
      [] m = "sow" ->
           {"single_call", "chunk_aggregate_model", "chunk_aggregate_programmatic"}
      [] m = "tender" -> {"single_call", "chunked_fallback"}
      [] OTHER -> {}

\* The modes the code does return: only the page-chunked section-wise
\* extraction keeps to the six names; the word-chunked one, ExtractSOW and
\* ExtractTenderSummary return single_call, chunk_aggregate_model,
\* chunk_aggregate_programmatic and chunked_fallback, and the last two
\* extractions never return chunk_failed.
ModesByPipeline == Returned => result.mode \in ModesOf(impl)

\* C8: an empty final comes only with mode chunk_failed.
C8_EmptyMeansFailed ==
    (impl = "chunked" /\ Returned /\ result.final.elems = <<>>) =>
        result.mode = "chunk_failed"

\* C9: for n >= 1 pages, pagesPerChunk >= 1 and 0 <= overlapPages <
\* pagesPerChunk, makeChunksFromPages terminates, never indexes a page
\* below 1, and the page ranges of its chunks cover 1..n with no gap.
SegPre == seg.n >= 1 /\ seg.overlapPages < seg.pagesPerChunk

Covers(chunks, n) ==
    /\ chunks # <<>>
    /\ chunks[1].StartPage = 1
    /\ chunks[Len(chunks)].EndPage = n
    /\ \A k \in 1..(Len(chunks) - 1) :
          /\ chunks[k + 1].StartPage <= chunks[k].EndPage + 1
          /\ chunks[k + 1].StartPage > chunks[k].StartPage
    /\ \A k \in 1..Len(chunks) :
          chunks[k].StartPage <= chunks[k].EndPage

C9_ChunksCover ==
    /\ [](SegPre => seg.pc # "panic")
    /\ []((SegPre /\ seg.pc = "done") => Covers(seg.chunks, seg.n))
    /\ SegPre => <>(seg.pc = "done")

C9_Witness ==
    /\ SegPre /\ seg.pc = "done" /\ seg.n = MaxSegPages
    /\ seg.pagesPerChunk = 3 /\ seg.overlapPages = 2 /\ Len(seg.chunks) = 3

\* C10: filterCandidateChunks returns a non-empty sequence for a non-empty
\* input (all chunks when none qualifies), and what it returns is a
\* subsequence of its input, in the same order.
RECURSIVE IsSubseq(_, _)
IsSubseq(a, b) ==
    IF a = <<>> THEN TRUE
    ELSE IF b = <<>> THEN FALSE
    ELSE IF Head(a) = Head(b) THEN IsSubseq(Tail(a), Tail(b))
    ELSE IsSubseq(a, Tail(b))

C10_FilterNeverEmpty ==
    (fun.name = "filterCandidateChunks" /\ fun.done) =>
        /\ fun.arg # <<>> => fun.out # <<>>
        /\ IsSubseq(fun.out, fun.arg)
        /\ (\A k \in 1..Len(fun.arg) : ~chunkLikelyHasSectionHeader(fun.arg[k].Text))
              => fun.out = fun.arg
        /\ \A k \in 1..Len(fun.out) : fun.out # fun.arg =>
              chunkLikelyHasSectionHeader(fun.out[k].Text)

C10_Witness ==
    /\ fun.name = "filterCandidateChunks" /\ fun.done
    /\ Len(fun.arg) = 2 /\ fun.out = fun.arg
    /\ \A k \in 1..Len(fun.arg) : ~chunkLikelyHasSectionHeader(fun.arg[k].Text)


\* The sections handed to an execution of programmaticAggregate, in order.
AggDone == fun.name = "programmaticAggregate" /\ fun.done
AggKeys(sections) == {SectionKey(sections[k]) : k \in 1..Len(sections)} \ {<<>>}

\* The considerations of the sections of key, in the order of the input.
RECURSIVE KcsOfKey(_, _)
KcsOfKey(sections, key) ==
    IF sections = <<>> THEN <<>>
    ELSE (IF SectionKey(Head(sections)) = key
          THEN Head(sections).key_considerations.elems ELSE <<>>)
         \o KcsOfKey(Tail(sections), key)

NormTexts(kcs) == [k \in 1..Len(kcs) |-> normalize(kcs[k].consideration)]
NoRepeat(s) == \A a, b \in 1..Len(s) : s[a] = s[b] => a = b

\* The union of the considerations in first-seen order: each normalized
\* text once, by its first occurrence.
UnionFirstSeen(kcs) == Dedup(kcs, NormTexts(kcs))

\* C11: programmaticAggregate outputs exactly one section per distinct
\* normalized key of the input (a section with neither name nor summary has
\* no key), and the considerations of that section are the union of the
\* considerations of the input sections of that key, in first-seen order,
\* no two of them with the same normalized text.
C11_OnePerKeyUnion ==
    AggDone =>
        LET sections == Flatten(fun.arg)
            out == fun.out.direct
        IN  /\ {SectionKey(out[k]) : k \in 1..Len(out)} = AggKeys(sections)
            /\ Len(out) = Cardinality(AggKeys(sections))
            /\ \A k \in 1..Len(out) :
                  LET kcs == out[k].key_considerations.elems
                  IN  /\ NoRepeat(NormTexts(kcs))
                      /\ kcs = UnionFirstSeen(KcsOfKey(sections, SectionKey(out[k])))

\* C12: programmaticAggregate is deterministic: two executions on the same
\* list of partial results return the same sequence of sections.
C12_Deterministic == AggDone => fun.out.direct = fun.out.again


MergeDone == fun.name = "programmaticMerge" /\ fun.done
TenderMergeDone == fun.name = "mergeTenderObjects" /\ fun.done

\* No field is set: every text is empty and no list has an element.
NoSectionField(section) ==
    /\ section.section_name = <<>>
    /\ section.section_summary = <<>>
    /\ section.key_considerations.elems = <<>>
NoSowField(p) ==
    /\ p.project_overview = ZeroOverview
    /\ p.major_work_components.elems = <<>>
    /\ p.technical_standards.elems = <<>>
NoTenderField(p) ==
    /\ p.project_overview = <<>>
    /\ p.eligibility_highlights.elems = <<>>
    /\ p.important_dates.pre_bid_queries = <<>>
    /\ p.important_dates.bid_submission = <<>>
    /\ p.important_dates.other_dates.elems = <<>>
    /\ p.financial_requirements = ZeroTender.financial_requirements
    /\ p.risk_analysis.penalty_risk = <<>>
    /\ p.risk_analysis.other_risks.elems = <<>>

\* C13: on partial results none of which holds a field (placeholders only,
\* or no partial at all) programmatic aggregation returns the empty value
\* of the schema: an empty list of sections, and records of empty texts and
\* empty lists that are not null, the value of getEmptyTenderSummary for a
\* tender summary.
C13_EmptyValue ==
    /\ (AggDone /\ \A k \in 1..Len(Flatten(fun.arg)) : NoSectionField(Flatten(fun.arg)[k]))
          => fun.out.direct = <<>>
    /\ (MergeDone /\ \A k \in 1..Len(fun.arg) : NoSowField(fun.arg[k]))
          => fun.out.direct = SowPlaceholder
    /\ (TenderMergeDone /\ \A k \in 1..Len(fun.arg) : NoTenderField(fun.arg[k]))
          => fun.out.direct = getEmptyTenderSummary


\* C14: each sanitizer is idempotent: applied to its own output it returns
\* that output.
C14_SanitizerIdempotent ==
    (fun.name \in Sanitizers /\ fun.done) => fun.out.twice = fun.out.once

\* A text with a fence, the word json and blanks around other characters,
\* which the sanitizer shortened to a text that is not empty.
C14_Witness ==
    /\ fun.name \in Sanitizers
    /\ fun.done
    /\ \E k \in 1..(Len(fun.arg) - 3) : SubSeq(fun.arg, k, k + 3) = FenceJson
    /\ fun.arg[Len(fun.arg)] = " "
    /\ fun.out.once # <<>>
    /\ Len(fun.out.once) < Len(fun.arg)


\* C15: a value returned by programmatic aggregation, serialized to JSON
\* and passed through the sanitizer and the parser, comes back equal,
\* whatever its field texts (fences and blanks at the ends included).
C15_RoundTrip ==
    /\ AggDone => fun.out.back = [err |-> FALSE, v |-> SliceOf(fun.out.direct)]
    /\ MergeDone => fun.out.back = [err |-> FALSE, parsed |-> fun.out.direct]
    /\ TenderMergeDone => fun.out.back = [nil |-> FALSE, v |-> fun.out.direct]


\* The elements of a sequence, as a set.
Items(seq) == {seq[k] : k \in 1..Len(seq)}

\* The merged records of a list of sections as a set: key, kept summary and
\* set of considerations of each.
SectionSet(sections) ==
    {[key |-> SectionKey(sections[k]),
      summary |-> sections[k].section_summary,
      items |-> Items(sections[k].key_considerations.elems)] : k \in 1..Len(sections)}

SowSet(v) ==
    [overview |-> v.project_overview,
     components |-> Items(v.major_work_components.elems),
     standards |-> Items(v.technical_standards.elems)]

TenderSet(v) ==
    [overview |-> v.project_overview,
     highlights |-> Items(v.eligibility_highlights.elems),
     dates |-> <<v.important_dates.pre_bid_queries, v.important_dates.bid_submission>>,
     others |-> Items(v.important_dates.other_dates.elems),
     financial |-> v.financial_requirements,
     penalty |-> v.risk_analysis.penalty_risk,
     risks |-> Items(v.risk_analysis.other_risks.elems)]

\* C16: for partial results A, B and C, aggregating [A,B] and then the
\* outcome with [C] gives the same set of merged records (same keys, same
\* kept summary, same set of list items) as aggregating [A,B,C].
C16_StagedEqualsDirect ==
    Len(fun.arg) = 3 =>
        /\ AggDone => SectionSet(fun.out.staged) = SectionSet(fun.out.direct)
        /\ MergeDone => SowSet(fun.out.staged) = SowSet(fun.out.direct)
        /\ TenderMergeDone => TenderSet(fun.out.staged) = TenderSet(fun.out.direct)


\* C17: when the Gemini service or its Flash model is missing,
\* ExtractTenderSummary (on a file whose pages could be read) runs no part
\* of the cascade, no chunk is processed, and it ends with an error, never
\* with a result that carries a mode.
C17_NotConfiguredFails ==
    (impl = "tender" /\ ~service.flashModel /\ doc.fails = "none") =>
        /\ chunkResults = <<>>
        /\ pc = "done" => (result.status = "error" /\ result.mode \notin ModesOf("tender"))


\* C18: in the word-chunked ExtractSectionwiseAnalysis the chunked
\* extraction starts only after the Flash single call was attempted:
\* whatever way the Pro single call failed (an error of the call, an empty
\* response, an answer that does not decode or decodes to no section), the
\* same prompt went to the Flash model first.
C18_SecondaryBeforeChunks ==
    (impl = "sectionwise" /\ pc = "lchunk") => (hist.primary = 1 /\ hist.secondary = 1)


\* C19: in ExtractSOW and ExtractTenderSummary a single-call answer that
\* parses to a record with no field set (as {} and null do) is a failure of
\* the single-call stage: no result of mode single_call holds such a record
\* (the chunked stage runs instead).
C19_EmptySingleFails ==
    /\ (impl = "sow" /\ Returned /\ result.mode = "single_call")
          => ~NoSowField(result.final)
    /\ (impl = "tender" /\ Returned /\ result.mode = "single_call")
          => ~NoTenderField(result.final)

\* The frames a goroutine of handleUserMessage has put on the connection.
TypingOf(k) ==
    {j \in 1..Len(ws.sent) : ws.sent[j].by = k /\ ws.sent[j].type = "typing"}
AnswersOf(k) ==
    {j \in 1..Len(ws.sent) :
        ws.sent[j].by = k /\ ws.sent[j].type \in {"ai_response", "error"}}

Requested(k) == ws.tasks[k].pc # "none"

\* The typing message and exactly one answer of request k are out.
Served(k) == TypingOf(k) # {} /\ Cardinality(AnswersOf(k)) = 1

\* At most one answer, after the typing message and of the type the
\* completion call decided.
AnswerInOrder(k) ==
    /\ Cardinality(AnswersOf(k)) <= 1
    /\ \A j \in AnswersOf(k) :
          /\ \E t \in TypingOf(k) : t < j
          /\ ws.sent[j].type = ws.tasks[k].reply

ConnectionOver == ws.peer = "gone" \/ ws.loop = "returned"

\* C20: for every user_message received on a connection the server sends a
\* typing message and afterwards exactly one answer, ai_response when the
\* completion call succeeded and error when it failed, the typing message
\* first; read for as long as the connection lasts.
C20_TypingThenAnswer ==
    /\ [](\A k \in 1..MaxClientMsgs : AnswerInOrder(k))
    /\ \A k \in 1..MaxClientMsgs : Requested(k) ~> (Served(k) \/ ConnectionOver)

\* The frames the read loop has put on the connection for message n.
LoopAnswers(n, t) ==
    {j \in 1..Len(ws.sent) :
        ws.sent[j].by = 0 /\ ws.sent[j].req = n /\ ws.sent[j].type = t}

\* What the read loop owes message n: a pong for a ping, an error for a
\* message of an unknown type.
Owed(n) ==
    IF n > Len(ws.recv) THEN "none"
    ELSE CASE ws.recv[n] = "ping" -> "pong"
           [] ws.recv[n] = "other" -> "error"
           [] OTHER -> "none"

\* The loop is past message n: it reads again, or has read a later message.
LoopPast(n) == n < Len(ws.recv) \/ (n = Len(ws.recv) /\ ws.loop = "read")

\* C21: every ping is answered by exactly one pong and every message of an
\* unknown type by exactly one error, written by the read loop before it
\* reads the next message; the read loop reads on while completion calls
\* are in flight.  Read for as long as the connection lasts.
C21_LoopAnswers ==
    /\ [](\A n \in 1..MaxClientMsgs :
            /\ Owed(n) # "none" => Cardinality(LoopAnswers(n, Owed(n))) <= 1
            /\ (Owed(n) # "none" /\ LoopPast(n))
                  => Cardinality(LoopAnswers(n, Owed(n))) = 1)
    /\ [](( /\ ws.loop = "read" /\ ~ws.crashed
            /\ Len(ws.recv) < MaxClientMsgs) => ENABLED ReadJSON)
    /\ \A n \in 1..MaxClientMsgs :
          (Owed(n) # "none")
              ~> (Cardinality(LoopAnswers(n, Owed(n))) = 1 \/ ConnectionOver)

\* C22: writes to one connection are mutually exclusive: at no time are two
\* callers (the read loop, the goroutines of handleUserMessage) inside
\* WriteJSON on the same connection.
C22_OneWriter == Cardinality(ws.writers) <= 1

\* A goroutine of handleUserMessage that still has a frame to write.
HasWriteAhead(k) == ws.tasks[k].pc \in {"typing", "call", "answer"}

\* C30: once HandleWebSocket has left its read loop and closed the
\* connection, no goroutine of handleUserMessage started for it still has a
\* write to perform.
C30_NoWriteAfterClose ==
    ws.loop = "returned" => \A k \in 1..MaxClientMsgs : ~HasWriteAhead(k)

\* A step of the retry loop: one more call for the chunk of the loop.
AttemptStep ==
    impl = "chunked" /\ pc = "attempt" /\ hist'.attempts = hist.attempts + 1

\* C23: a processed chunk gets at least one and at most maxRetries+1 = 3
\* calls; a further attempt is made only after failed ones and none after a
\* successful one; the chunk contributes a partial result exactly when an
\* attempt returned text that parses to a non-empty list.
C23_AttemptsPerChunk ==
    [][ /\ AttemptStep =>
            /\ hist'.attempts <= 3
            /\ hist.attempts > 0 => ~NonEmptyList(hist.answer)
            /\ NonEmptyList(hist'.answer) <=> Len(chunkResults') = Len(chunkResults) + 1
            /\ NonEmptyList(hist'.answer) => pc' # "attempt"
        /\ (impl = "chunked" /\ pc = "attempt" /\ pc' # "attempt") => hist'.attempts >= 1
        /\ (impl = "chunked" /\ chunkResults' # chunkResults) => AttemptStep
      ]_vars

\* A chunk that succeeded on its third attempt.
C23_Witness ==
    /\ impl = "chunked" /\ pc = "chunk"
    /\ hist.attempts = 3 /\ hist.lastOk = i - 1 /\ NonEmptyList(hist.answer)
    /\ Len(chunkResults) >= 1

\* The chunks of the loop called since the last one that contributed.
FailedSince == {c \in hist.chunks : c > hist.lastOk}

\* C24: after each chunk the consecutive-failure counter is the number of
\* chunks processed since the last successful one: a chunk that succeeded
\* sets it to 0, a chunk whose attempts all failed adds exactly one,
\* whichever way the attempts failed.
C24_ConsecutiveCounter ==
    [][ impl = "chunked" =>
          /\ (pc = "attempt" /\ pc' # "attempt") =>
                consecutiveNoNew' = IF NonEmptyList(hist'.answer) THEN 0
                                    ELSE consecutiveNoNew + 1
          /\ (pc' = "attempt" \/ pc # "attempt") =>
                consecutiveNoNew' = consecutiveNoNew
          /\ pc' \in {"chunk", "aggregate"} =>
                consecutiveNoNew' = Cardinality(FailedSince')
      ]_vars

\* Two chunks failed after one that succeeded, the latest on a text that
\* does not give a non-empty list.
C24_Witness ==
    /\ impl = "chunked" /\ pc = "chunk"
    /\ hist.lastOk >= 1 /\ consecutiveNoNew = 2
    /\ hist.answer.kind = "text"

\* The candidate chunks no call was made for.
Unattempted == (1..Len(candidateChunks)) \ hist.chunks

\* C25: the chunks are attempted in ascending page order and the partial
\* results kept in the order of their chunks; a chunk of the candidate list
\* is left unattempted only when the consecutive-failure counter reached the
\* threshold at an earlier chunk, never because one chunk failed.
C25_InOrder ==
    [][ impl = "chunked" =>
          /\ AttemptStep =>
                /\ \A c \in 1..(i - 1) :
                      /\ c \in hist.chunks
                      /\ candidateChunks[c].StartPage < candidateChunks[i].StartPage
                /\ \A c \in hist.chunks : c <= i
          /\ chunkResults' # chunkResults =>
                /\ Len(chunkResults') = Len(chunkResults) + 1
                /\ SubSeq(chunkResults', 1, Len(chunkResults)) = chunkResults
          /\ pc' = "aggregate" =>
                \A c \in Unattempted' :
                   /\ consecutiveNoNew' >= maxConsecutiveNoNew
                   /\ \A d \in hist'.chunks : d < c
      ]_vars

\* A chunk failed, a later one contributed and every candidate was called.
C25_Witness ==
    /\ impl = "chunked" /\ pc = "aggregate"
    /\ Len(candidateChunks) >= 2 /\ Unattempted = {}
    /\ hist.lastOk = Len(candidateChunks)
    /\ Len(chunkResults) >= 1 /\ Len(chunkResults) < Len(candidateChunks)

\* C26: makeChunksFromPages makes forward progress for every pagesPerChunk
\* >= 1 and every overlapPages >= 0: it terminates on every page sequence
\* and never indexes a page below the first, also when overlapPages >=
\* pagesPerChunk.
C26_ForwardProgress ==
    /\ [](seg.pc # "panic")
    /\ <>(seg.pc = "done")

\* The steps a run of the page-chunked extraction has left at most: the
\* chunks still to come with their attempts, then the aggregation.
StepsLeft ==
    LET perChunk == maxRetries + 3
        loopAt(k) == 3 + perChunk * (Len(candidateChunks) + 1 - k)
    IN  CASE pc = "done" -> 0
          [] pc = "model" -> 1
          [] pc = "aggregate" -> 2
          [] pc = "chunk" -> loopAt(i)
          [] pc = "attempt" -> loopAt(i) - 1 - retry
          [] pc = "secondary" -> 4 + perChunk * (MaxDocPages + 1)
          [] pc = "primary" -> 5 + perChunk * (MaxDocPages + 1)
          [] OTHER -> 6 + perChunk * (MaxDocPages + 1)

\* C27: given that every backend call returns, a run of
\* ExtractSectionwiseAnalysis ends (every step leaves fewer steps to take,
\* none when it has returned), after at most one
\* primary and one secondary single call, 3 calls for each candidate chunk,
\* made while the loop stands at that chunk, and one aggregation call; when
\* every chunk attempt fails the calls of the chunk stage are those of at
\* most 6 chunks, 18 in all.
C27_BoundedCalls ==
    [][ impl = "chunked" =>
          /\ StepsLeft' < StepsLeft /\ StepsLeft' >= 0
          /\ hist'.primary <= 1 /\ hist'.secondary <= 1 /\ hist'.aggregate <= 1
          /\ hist'.attempts <= 3
          /\ \A c \in hist'.chunks : c <= i' /\ c <= Len(candidateChunks')
          /\ hist'.attempts > hist.attempts =>
                (pc = "attempt" /\ MaxOf(hist'.chunks) = i)
          /\ Len(chunkResults') = 0 => 3 * Cardinality(hist'.chunks) <= 18
      ]_vars

\* Six chunks failed on all their attempts and the loop stopped with chunks
\* of the list left.
C27_Witness ==
    /\ impl = "chunked" /\ pc = "done"
    /\ Len(chunkResults) = 0 /\ Cardinality(hist.chunks) = 6
    /\ Len(candidateChunks) > 6 /\ hist.attempts = 3

\* The answer is a call error, an empty response or a text that does not
\* parse as a list of sections.
NoSectionList(r) ==
    r.kind # "text" \/ Unmarshal(cleanJSONResponse(r.text), NilSlice).err

\* C28: with partial results the model aggregation is called exactly once;
\* when its answer is an error, an empty response or text that does not
\* parse as a section list, no error is raised and the final returned is
\* what programmaticAggregate computes over the same partial results.
C28_FallbackToProgrammatic ==
    (impl = "chunked" /\ pc = "done" /\ Len(chunkResults) > 0) =>
        /\ hist.aggregate = 1
        /\ result.status = "ok"
        /\ NoSectionList(hist.answer) =>
              result.final \in {SliceOf(f) : f \in programmaticAggregate(chunkResults)}

\* The aggregation call answered with a text that is no section list and the
\* programmatic aggregate of the partial results was returned.
C28_Witness ==
    /\ impl = "chunked" /\ pc = "done" /\ Len(chunkResults) > 0
    /\ hist.answer.kind = "text" /\ NoSectionList(hist.answer)
    /\ result.mode = "chunk_optimized" /\ SliceLen(result.final) > 0

\* The domain keywords, as the words of a line.
DomainKeywords ==
    { <<"rfp">>, <<"section">>, <<"scope">>, <<"scope", "of", "work">>,
      <<"project", "overview">>, <<"major", "work">>, <<"technical", "standard">>,
      <<"section-wise">>, <<"eligibility">>, <<"section", "wise">>,
      <<"rfp", "section">> }

\* The lines of the pages of a chunk built by makeChunksFromPages: those of
\* its text but the page markers and the separators between pages.
PageLines(c) ==
    {l \in 1..Len(c.Text) :
        /\ c.Text[l] # <<>>
        /\ \A k \in 1..MaxPageNo : c.Text[l] # <<PageMarker(k)>>}

IsBuilt(chunks) ==
    /\ chunks # <<>>
    /\ \A k \in 1..Len(chunks) : chunks[k].Text[1] = <<PageMarker(chunks[k].StartPage)>>

\* A domain keyword or an all-caps heading line occurs in the pages.
PagesQualify(c) ==
    \E l \in PageLines(c) :
        \/ IsHeading(c.Text[l])
        \/ \E w \in DomainKeywords :
              LineMatches([k \in 1..Len(c.Text[l]) |-> ToLower(c.Text[l][k])], w)

\* C29: of chunks built by makeChunksFromPages, filterCandidateChunks
\* selects exactly those in whose pages a domain keyword or an all-caps
\* heading line occurs, whenever at least one chunk qualifies.
C29_SelectsByContent ==
    ( /\ fun.name = "filterCandidateChunks" /\ fun.done
      /\ IsBuilt(fun.arg)
      /\ \E k \in 1..Len(fun.arg) : PagesQualify(fun.arg[k]) )
    => fun.out = SelectSeq(fun.arg, PagesQualify)

\* C31: in the chunk loop of ExtractSectionwiseAnalysis there is no delay
\* before the first attempt of a chunk, 500 ms before its first retry and
\* 2000 ms before its second.
C31_Backoff ==
    [][AttemptStep =>
          hist'.delay = CASE hist'.attempts = 1 -> 0
                          [] hist'.attempts = 2 -> 500
                          [] hist'.attempts = 3 -> 2000
                          [] OTHER -> -1]_vars

\* A chunk was retried twice.
C31_Witness ==
    impl = "chunked" /\ hist.attempts = 3 /\ hist.delay = 2000

\* The throttle delays of a chunk loop: one after every chunk that is
\* followed by another, none after the last.
ThrottledBetween ==
    /\ \A c \in hist.chunks :
          (\E d \in hist.chunks : d > c) => c \in hist.throttled
    /\ (pc = "done" /\ hist.chunks # {}) => MaxOf(hist.chunks) \notin hist.throttled

\* C32: in the chunk loops of the section-wise, scope-of-work and tender
\* extractions a throttle delay lies between any two consecutive chunks,
\* whether the earlier one succeeded or failed, and none after the last.
C32_Throttle ==
    impl \in {"chunked", "sow", "tender"} => ThrottledBetween

\* The sections of a list that share a key, and the first of the longest
\* among the values vals[k], k \in G.
GroupOf(flat, key) == {k \in 1..Len(flat) : SectionKey(flat[k]) = key}
FirstLongest(vals, G) ==
    CHOOSE k \in G :
        /\ \A j \in G : FieldLen(vals[j]) <= FieldLen(vals[k])
        /\ \A j \in G : j < k => FieldLen(vals[j]) < FieldLen(vals[k])

\* The name and the summary of every group of a list of sections: the name
\* of the first section of the group, the first of its longest summaries.
GroupHeads(flat) ==
    { [section_name |-> flat[MinOf(GroupOf(flat, key))].section_name,
       section_summary |->
           flat[FirstLongest([k \in 1..Len(flat) |-> flat[k].section_summary],
                             GroupOf(flat, key))].section_summary]
        : key \in {SectionKey(flat[k]) : k \in 1..Len(flat)} \ {<<>>} }

AggregateKeepsLongest ==
    (fun.name = "programmaticAggregate" /\ fun.done)
    => /\ { [section_name |-> fun.out.direct[k].section_name,
             section_summary |-> fun.out.direct[k].section_summary]
               : k \in 1..Len(fun.out.direct) } = GroupHeads(Flatten(fun.arg))
       /\ Len(fun.out.direct) = Cardinality(GroupHeads(Flatten(fun.arg)))

\* The first of the longest non-empty values of a list, the empty text
\* when there is none.
LongestOf(vals) ==
    LET G == {k \in 1..Len(vals) : vals[k] # <<>>}
    IN  IF G = {} THEN <<>> ELSE vals[FirstLongest(vals, G)]

\* C33 (as stated): in a group of partial records, programmaticAggregate
\* keeps the first of the longest section summaries and the name of the
\* first section, and mergeTenderObjects keeps the first of the longest
\* non-empty project overviews of the partials.
C33_KeepsLongestValue ==
    /\ AggregateKeepsLongest
    /\ (fun.name = "mergeTenderObjects" /\ fun.done)
       => fun.out.direct.project_overview =
              LongestOf([k \in 1..Len(fun.arg) |-> fun.arg[k].project_overview])

\* C33 (amended): as above, where mergeTenderObjects measures and keeps the
\* project overviews without the white space around them.
C33_KeepsLongestTrimmed ==
    /\ AggregateKeepsLongest
    /\ (fun.name = "mergeTenderObjects" /\ fun.done)
       => fun.out.direct.project_overview =
              LongestOf([k \in 1..Len(fun.arg) |->
                            TrimSpace(fun.arg[k].project_overview)])

\* A group whose first two summaries are equally long and differ was
\* merged: the summary and the name kept are those of the first.
C33_Witness ==
    /\ fun.done
    /\ fun.name = "programmaticAggregate"
    /\ fun.arg = << <<SectionOf("o1")>>, <<TieSection>> >>
    /\ fun.out.direct[1].section_summary = <<"a">>
    /\ fun.out.direct[1].section_name = <<"E", "l">>

\* A list of partial results without the elements equal to placeholder.
Without(partials, placeholder) ==
    SelectSeq(partials, LAMBDA p : p # placeholder)

\* C34: the placeholders of failed chunks contribute nothing: the result of
\* programmaticMerge and of mergeTenderObjects on a list with placeholders
\* at any positions is their result on the list without them.
C34_PlaceholdersNeutral ==
    /\ MergeDone
       => fun.out.direct = programmaticMerge(Without(fun.arg, SowPlaceholder))
    /\ TenderMergeDone
       => fun.out.direct = mergeTenderObjects(Without(fun.arg, getEmptyTenderSummary))

\* A list with a placeholder before and after a partial that holds fields
\* was merged.
C34_Witness ==
    /\ TenderMergeDone
    /\ fun.arg = <<getEmptyTenderSummary, DecodeTender(ZeroTender, "t1"),
                   getEmptyTenderSummary>>
    /\ fun.out.direct.important_dates.bid_submission = <<"d">>

\* The keys of the claim: every text field of an item lower-cased, trimmed
\* and with its runs of blanks collapsed.
MwcNorm(item) ==
    <<normalize(item.s_no), normalize(item.work_description),
      normalize(item.quantity_specification), normalize(item.unit)>>
TsNorm(item) ==
    <<normalize(item.component), normalize(item.standard_specification),
      normalize(item.compliance_required)>>
DateNorm(e) == <<normalize(e.name), normalize(e.date)>>
RiskNorm(e) == <<normalize(e.name), normalize(e.detail)>>

\* The items of the lists of the partials, one list after the other.
ListsOf(partials, F(_)) == ConcatLists([k \in 1..Len(partials) |-> F(partials[k])], 1)

\* out holds the first max items of in that are distinct under Key, in the
\* order in which in has them.
FirstDistinct(out, in, Key(_), max) ==
    LET keys == [k \in 1..Len(in) |-> Key(in[k])]
        want == Dedup(keys, keys)
    IN  [k \in 1..Len(out) |-> Key(out[k])] = SubSeq(want, 1, minInt(max, Len(want)))

\* C35: the lists of the result of programmaticMerge and mergeTenderObjects
\* hold the items of the partials in first-seen order, no two of them equal
\* after lower-casing, trimming and collapsing the blanks of their text
\* fields; eligibility_highlights holds the first 4 distinct ones.
C35_ListsDeduplicated ==
    /\ MergeDone
       => LET mw(p) == p.major_work_components
              ts(p) == p.technical_standards
          IN  /\ FirstDistinct(fun.out.direct.major_work_components.elems,
                               ListsOf(fun.arg, mw), MwcNorm, Len(ListsOf(fun.arg, mw)))
              /\ FirstDistinct(fun.out.direct.technical_standards.elems,
                               ListsOf(fun.arg, ts), TsNorm, Len(ListsOf(fun.arg, ts)))
    /\ TenderMergeDone
       => LET eh(p) == p.eligibility_highlights
              od(p) == p.important_dates.other_dates
              or(p) == p.risk_analysis.other_risks
          IN  /\ FirstDistinct(fun.out.direct.eligibility_highlights.elems,
                               SelectSeq(ListsOf(fun.arg, eh),
                                         LAMBDA item : normalize(item) # <<>>),
                               normalize, EligibilityMax)
              /\ FirstDistinct(fun.out.direct.important_dates.other_dates.elems,
                               ListsOf(fun.arg, od), DateNorm, Len(ListsOf(fun.arg, od)))
              /\ FirstDistinct(fun.out.direct.risk_analysis.other_risks.elems,
                               ListsOf(fun.arg, or), RiskNorm, Len(ListsOf(fun.arg, or)))

\* The same with the keys the code compares: the lower-cased fields as they
\* stand (the highlights trimmed).
ListsDedupedByCodeKeys ==
    /\ MergeDone
       => LET mw(p) == p.major_work_components
          IN  FirstDistinct(fun.out.direct.major_work_components.elems,
                            ListsOf(fun.arg, mw), MwcKey, Len(ListsOf(fun.arg, mw)))
    /\ TenderMergeDone
       => LET eh(p) == p.eligibility_highlights
              od(p) == p.important_dates.other_dates
              trimKey(item) == Lower(TrimSpace(item))
          IN  /\ FirstDistinct(fun.out.direct.eligibility_highlights.elems,
                               SelectSeq(ListsOf(fun.arg, eh),
                                         LAMBDA item : TrimSpace(item) # <<>>),
                               trimKey, EligibilityMax)
              /\ FirstDistinct(fun.out.direct.important_dates.other_dates.elems,
                               ListsOf(fun.arg, od), DateKey, Len(ListsOf(fun.arg, od)))

\* The parse the claim describes, of a fence-stripped text into a value
\* that starts as zero, with Decode(text, v) the decoding of the pipeline:
\* the text itself, else the longest {...} or [...] span of it, else the
\* longest prefix of that span that decodes; none when nothing decodes.
FallbackParse(cleaned, Decode(_, _), zero) ==
    LET direct == Decode(cleaned, zero)
        block == TenderExtractJSONBlock(cleaned)
        ends == {e \in 1..Len(block) : ~Decode(SubSeq(block, 1, e), zero).err}
    IN  IF ~direct.err THEN [none |-> FALSE, v |-> direct.v]
        ELSE IF ends = {} THEN [none |-> TRUE, v |-> zero]
        ELSE [none |-> FALSE, v |-> Decode(SubSeq(block, 1, MaxOf(ends)), zero).v]

\* The text is not valid JSON, and a prefix of its longest span is.
NeedsTrim(cleaned, Decode(_, _), zero) ==
    LET block == TenderExtractJSONBlock(cleaned)
    IN  /\ Decode(cleaned, zero).err
        /\ Decode(block, zero).err
        /\ ~FallbackParse(cleaned, Decode, zero).none

\* C36: every parser returns the value of the fence-stripped text when it
\* parses, else of its longest {...} or [...] span, else of the longest
\* prefix of that span that parses, and reports that there is no value
\* when none of them parses.
C36_ParseFallbacks ==
    fun.done =>
       /\ fun.name = "json.Unmarshal"
          => fun.out = FallbackParse(cleanJSONResponse(fun.arg), Unmarshal, NilSlice)
       /\ fun.name = "SOWExtractor.safeParseJSON"
          => fun.out = FallbackParse(SowCleanModelOutput(fun.arg), UnmarshalSow, ZeroSow)
       /\ fun.name = "TenderSummaryExtractor.safeParseJSON"
          => fun.out = FallbackParse(TenderCleanModelOutput(fun.arg), UnmarshalTender,
                                    ZeroTender)

\* The same of the tender parser alone.
TenderParseFallbacks ==
    (fun.done /\ fun.name = "TenderSummaryExtractor.safeParseJSON")
    => fun.out = FallbackParse(TenderCleanModelOutput(fun.arg), UnmarshalTender,
                              ZeroTender)

\* The tender parser returned the value of a shortened span.
TenderTrimmed ==
    /\ fun.done /\ fun.name = "TenderSummaryExtractor.safeParseJSON"
    /\ NeedsTrim(TenderCleanModelOutput(fun.arg), UnmarshalTender, ZeroTender)
    /\ ~fun.out.none

AnalyzeDone == fun.name = "AnalyzeTenderDocument" /\ fun.done

\* The response AnalyzeTenderDocument went on with, when it had one.
Answered ==
    IF fun.out.calls = <<"pro">> THEN {fun.arg.pro}
    ELSE IF fun.out.calls = <<"pro", "flash">> /\ fun.arg.flash.kind # "error"
    THEN {fun.arg.flash}
    ELSE {}

\* The Flash model is called exactly when the Pro call returned an error,
\* and a Pro response without candidates or content parts is an error with
\* no further call.
FlashOnProError ==
    AnalyzeDone =>
       /\ ("flash" \in Items(fun.out.calls))
              <=> ("pro" \in Items(fun.out.calls) /\ fun.arg.pro.kind = "error")
       /\ ("pro" \in Items(fun.out.calls) /\ fun.arg.pro.kind \in {"nocand", "noparts"})
              => fun.out.err # "" /\ fun.out.calls = <<"pro">>

\* C39: AnalyzeTenderDocument calls the Flash model exactly when the Pro
\* call returned an error; a Pro response without candidates or content
\* parts is an error with no further call; a response truncated at the
\* output-token limit is the error response truncated due to max tokens,
\* which no other response gets, and no call follows it.
C39_FlashIffProError ==
    /\ FlashOnProError
    /\ AnalyzeDone =>
          \A resp \in Answered :
              (resp.finish = "FinishReasonMaxTokens")
                  <=> fun.out.err = "response truncated due to max tokens"

\* The same for the responses without content parts.
TruncatedWithoutParts ==
    AnalyzeDone =>
       \A resp \in Answered :
           (resp.kind = "noparts" /\ resp.finish = "FinishReasonMaxTokens")
               <=> fun.out.err = "response truncated due to max tokens"

\* The documents and the search results a read of the store has found.
DocsSeen(p) ==
    LET c == vs.procs[p]
    IN  (IF c.got.exists THEN {c.got.doc} ELSE {})
            \cup (IF c.op = "ExportDocument" /\ c.pc \in {"unlock", "idle"}
                       /\ c.ret # <<>> /\ ~c.ret.err
                  THEN {c.ret.doc} ELSE {})

ResultsSeen(p) ==
    LET c == vs.procs[p]
    IN  IF c.op = "SearchSimilar" /\ (c.pc = "unlock2" \/ c.done) THEN c.ret
        ELSE IF c.op = "AnalyzeDocument" /\ c.pc \in {"unlock2", "respond"} THEN c.ret
        ELSE IF c.op = "AnalyzeDocument" /\ c.done THEN c.ret.relevant_chunks
        ELSE <<>>

\* All the chunks of the document, and no other, stand in the document.
Complete(d) == d.chunks = NewDocument(d.content, d.metadata).chunks

\* A list of results that was not cut holds every chunk of each document
\* it has a chunk of.
WholeDocuments(results, topK) ==
    Len(results) < topK
    => \A r \in Items(results) :
          {x.chunk_id : x \in {y \in Items(results) : y.document_id = r.document_id}}
              = {<<r.document_id, k - 1>>
                   : k \in 1..Len(ChunkText(ContentOf(r.document_id), StoreChunkSize))}

\* C37: the document map is read and written with the lock held, writers
\* alone and readers together, so that every document a reader finds is
\* there with all its chunks.
C37_LockedAccess ==
    /\ vs.writer # 0 => vs.readers = {}
    /\ vs.pending # NoDoc => vs.writer # 0
    /\ \A p \in DOMAIN vs.procs :
          /\ (vs.procs[p].op \in Writes /\ vs.procs[p].pc \in {"in", "store", "unlock"})
                => vs.writer = p
          /\ (vs.procs[p].op \in Reads
                /\ vs.procs[p].pc \in {"in", "in2", "unlock", "unlock2"})
                => p \in vs.readers
          /\ \A d \in DocsSeen(p) : Complete(d)
          /\ WholeDocuments(ResultsSeen(p), SearchTopK)

\* A reader waits for the lock while the document of two chunks it asks for
\* is being written.
C37_Witness ==
    \E p, q \in DOMAIN vs.procs :
        /\ vs.procs[p].pc = "store"
        /\ vs.pending.id = Md5(LongContent)
        /\ vs.procs[q].pc = "lock"
        /\ vs.procs[q].op = "GetDocument"
        /\ vs.procs[q].id = Md5(LongContent)

\* A reader came out with the document of two chunks.
ReadWhole ==
    \E p \in DOMAIN vs.procs :
        /\ vs.procs[p].op = "GetDocument" /\ vs.procs[p].done
        /\ vs.procs[p].ret.exists
        /\ Len(vs.procs[p].ret.doc.chunks) = 2

\* C38: the relevant_chunks of an answer of AnalyzeDocument all belong to
\* the document asked for.
C38_ChunksOfDocument ==
    \A p \in DOMAIN vs.procs :
        (vs.procs[p].op = "AnalyzeDocument" /\ vs.procs[p].done
            /\ vs.procs[p].ret.status = 200)
        => \A r \in Items(vs.procs[p].ret.relevant_chunks) :
              r.document_id = vs.procs[p].id

\* The store holds one document for each content added and not deleted
\* since, under the ID of the content and with the metadata of the latest
\* add, and a content was never given two IDs.
OnePerContent ==
    /\ Cardinality(DOMAIN vs.documents) = Cardinality(vs.live)
    /\ \A c \in vs.live :
          /\ Md5(c) \in DOMAIN vs.documents
          /\ vs.documents[Md5(c)].content = c
          /\ vs.documents[Md5(c)].metadata = vs.latest[c]
    /\ \A x, y \in vs.issued : x[1] = y[1] => x[2] = y[2]

\* C40: after any sequence of AddDocument and DeleteDocument the store
\* holds one document for each content added and not deleted since (the
\* same ID for the same content, the metadata of the latest add);
\* DeleteDocument returns true exactly when the document was there, and
\* GetDocument finds a document exactly when its content was added and not
\* deleted since.
C40_ContentAddressed ==
    [][/\ OnePerContent'
       /\ \A p \in DOMAIN vs.procs :
             /\ (vs.procs[p].op = "DeleteDocument" /\ vs.procs[p].pc = "in"
                   /\ vs'.procs[p].pc = "unlock")
                   => /\ vs'.procs[p].ret = (ContentOf(vs.procs[p].id) \in vs.live)
                      /\ vs.procs[p].id \notin DOMAIN vs'.documents
             /\ (vs.procs[p].op = "GetDocument" /\ vs.procs[p].pc = "in"
                   /\ vs'.procs[p].pc = "unlock")
                   => vs'.procs[p].ret.exists = (ContentOf(vs.procs[p].id) \in vs.live)]_vars

\* The same content was added twice with different metadata, then deleted,
\* and a GetDocument after that found nothing.
C40_Witness ==
    /\ vs.issued = {<<ShortContent, Md5(ShortContent)>>}
    /\ vs.latest[ShortContent] = "m2"
    /\ vs.live = {}
    /\ vs.calls = MaxStoreCalls
    /\ \E p \in DOMAIN vs.procs :
          /\ vs.procs[p].op = "GetDocument" /\ vs.procs[p].done
          /\ vs.procs[p].id = Md5(ShortContent)
          /\ ~vs.procs[p].ret.exists

====
